---- MODULE Spec2Model ----
(***************************************************************************)
(* A model of the vessel frontend: the list views (containers, images,     *)
(* volumes, networks), their row/card/detail action handlers and their     *)
(* column configuration.                                                   *)
(*                                                                         *)
(* Text the code searches or compares (names, ids, images, search terms)   *)
(* is a sequence of one-character strings, so that toLowerCase(),          *)
(* includes() and localeCompare() are computed.  Bridge error texts are    *)
(* sequences of words and includes() is the same contiguous-subsequence    *)
(* test at word granularity.                                               *)
(***************************************************************************)
EXTENDS Integers, Sequences, FiniteSets, TLC

\* ----------------------------------------------------------------- bounds
\* Longest collection a list_* bridge call returns.
MaxListLen == 2
\* Longest search term typed into a search box.
MaxTermLen == 2
\* Action bridge calls and project fan-outs in flight at once.
MaxPending == 1
\* list_* bridge calls of one page in flight at once.
MaxListCalls == 2
\* Listener effects and subscribed handlers left over when a ContainerDetail
\* mounts.
MaxListeners == 1
\* Sessions one Terminal creates, and commands it is given.
MaxSessions == 3
MaxEntries == 2
MaxGroupLen == 3
MaxKeyEntries == 3
MaxResized == 2
\* Entries of a session's command history: slice(-100) in executeCommand.
HistoryLimit == 100

\* ------------------------------------------------------------------- text
\* String.prototype.toLowerCase on one character.
toLowerCaseChar(c) ==
  CASE c = "A" -> "a"
    [] c = "B" -> "b"
    [] c = "W" -> "w"
    [] OTHER -> c

\* String.prototype.toLowerCase
toLowerCase(s) == [i \in 1..Len(s) |-> toLowerCaseChar(s[i])]

\* String.prototype.includes / Array.prototype.includes on contiguous parts.
includes(s, t) ==
  \E i \in 0..(Len(s) - Len(t)) : SubSeq(s, i + 1, i + Len(t)) = t

\* The value of a state slot holding null (useState<string | null>(null)).
null == "null"

\* Sequences over S of length at most n.
SeqsUpTo(S, n) == UNION {[1..k -> S] : k \in 0..n}

\* The elements of a sequence.
Range(s) == {s[i] : i \in 1..Len(s)}

\* Array.prototype.filter with the predicate given as the set of kept elements.
RECURSIVE filter(_, _)
filter(s, keep) ==
  IF s = <<>> THEN <<>>
  ELSE (IF Head(s) \in keep THEN <<Head(s)>> ELSE <<>>) \o filter(Tail(s), keep)

\* ----------------------------------------------------------- the backend
\* What the bridge may return.  Ids are unique within one returned list.
ContainerPool ==
  {[id |-> <<"b", "1">>, name |-> <<"w">>, image |-> <<"n">>,
    state |-> "running", project |-> <<"a">>],
   [id |-> <<"2">>, name |-> <<"A", "b">>, image |-> <<"n">>,
    state |-> "exited", project |-> <<"a">>],
   [id |-> <<"3">>, name |-> <<"n">>, image |-> <<"B", "a">>,
    state |-> "running", project |-> <<>>]}

VolumePool ==
  {[name |-> <<"a", "B">>, driver |-> "local"],
   [name |-> <<"b">>, driver |-> "local"],
   [name |-> <<"n">>, driver |-> "nfs"]}

bridge == <<"b", "r", "i", "d", "g", "e">>
host == <<"h", "o", "s", "t">>
none == <<"n", "o", "n", "e">>
NetworkPool ==
  {[id |-> <<"1", "a">>, name |-> bridge],
   [id |-> <<"2">>, name |-> <<"a", "B">>],
   [id |-> <<"b", "3">>, name |-> <<"n">>]}

ImagePool ==
  {[id |-> <<"1">>, repo_tags |-> <<"web:1">>],
   [id |-> <<"2">>, repo_tags |-> <<>>]}

\* The lists a list_* call may resolve with: no identity twice.
ListsOf(pool, key) ==
  {s \in SeqsUpTo(pool, MaxListLen) :
     \A i, j \in 1..Len(s) : i # j => key[s[i]] # key[s[j]]}

ContainerLists == ListsOf(ContainerPool, [e \in ContainerPool |-> e.id])
VolumeLists == ListsOf(VolumePool, [e \in VolumePool |-> e.name])
NetworkLists == ListsOf(NetworkPool, [e \in NetworkPool |-> e.id])
ImageLists == ListsOf(ImagePool, [e \in ImagePool |-> e.id])

\* The error strings a rejected list_* call carries.
ListErrors == {"cannot connect to the Docker daemon"}

SearchTerms == SeqsUpTo({"a", "B"}, MaxTermLen)

Pages == {"containers", "images", "volumes", "networks"}

\* ------------------------------------------------------------------ state
VARIABLES
  activePage,     \* App: which page is mounted
  containerList,  \* ContainerList component state
  volumeList,     \* VolumeList component state
  networkList,    \* NetworkList component state
  imageList,      \* ImageList component state
  listCalls       \* list_* bridge calls of the mounted page still in flight

listVars == <<activePage, containerList, volumeList, networkList, imageList, listCalls>>

\* ------------------------------------------------------ String.localeCompare
\* Position of a lower-case character in the collation order.
CollationOrder == <<"1", "2", "3", "a", "b", "d", "e", "g", "h", "i", "n", "o", "r", "s", "t", "w">>
rank(c) == CHOOSE i \in 1..Len(CollationOrder) : CollationOrder[i] = toLowerCaseChar(c)
isUpper(c) == toLowerCaseChar(c) # c

\* Lexicographic comparison of two sequences of numbers: -1, 0 or 1.
RECURSIVE lexCompare(_, _)
lexCompare(a, b) ==
  IF a = <<>> /\ b = <<>> THEN 0
  ELSE IF a = <<>> THEN -1
  ELSE IF b = <<>> THEN 1
  ELSE IF Head(a) < Head(b) THEN -1
  ELSE IF Head(a) > Head(b) THEN 1
  ELSE lexCompare(Tail(a), Tail(b))

\* a.localeCompare(b): letters first (case ignored), then lower case before
\* upper case at the first difference in case.
localeCompare(a, b) ==
  LET primary == lexCompare([i \in 1..Len(a) |-> rank(a[i])],
                            [i \in 1..Len(b) |-> rank(b[i])])
  IN IF primary # 0 THEN primary
     ELSE lexCompare([i \in 1..Len(a) |-> IF isUpper(a[i]) THEN 1 ELSE 0],
                     [i \in 1..Len(b) |-> IF isUpper(b[i]) THEN 1 ELSE 0])

\* Array.prototype.sort((a, b) => a.name.localeCompare(b.name)): the sort is
\* stable, so an element stays behind the earlier elements it compares equal to.
RECURSIVE insertByName(_, _)
insertByName(x, s) ==
  IF s = <<>> THEN <<x>>
  ELSE IF localeCompare(x.name, Head(s).name) < 0 THEN <<x>> \o s
  ELSE <<Head(s)>> \o insertByName(x, Tail(s))

\* sortByNameKeepOrder is the array left as it was filled.
sortByNameKeepOrder(s) == s
RECURSIVE sortByName(_)
sortByName(s) ==
  IF s = <<>> THEN <<>>
  ELSE insertByName(s[Len(s)], sortByName(SubSeq(s, 1, Len(s) - 1)))

\* ---------------------------------------------------------- ContainerList
\* The keys of projectMap in insertion order: the project of each container
\* that has one, at its first appearance.
RECURSIVE projectKeys(_)
projectKeys(list) ==
  IF list = <<>> THEN <<>>
  ELSE LET rest == projectKeys(SubSeq(list, 1, Len(list) - 1))
           p == list[Len(list)].project
       IN IF p = <<>> \/ p \in Range(rest) THEN rest ELSE Append(rest, p)

\* groupContainersInMapOrder returns the groups in the order of the Map's keys.
groupContainersInMapOrder(list) ==
  LET keys == projectKeys(list)
  IN [i \in 1..Len(keys) |->
       [name |-> keys[i],
        containers |-> sortByName(filter(list, {c \in Range(list) : c.project = keys[i]})),
        isExpanded |-> TRUE,
        isSelected |-> FALSE]]
groupContainersByProject(list) ==
  LET keys == projectKeys(list)
  IN sortByName([i \in 1..Len(keys) |->
       [name |-> keys[i],
        containers |-> sortByName(filter(list, {c \in Range(list) : c.project = keys[i]})),
        isExpanded |-> TRUE,
        isSelected |-> FALSE]])

\* ---------------------------------------------------- column configuration
\* A ColumnConfig[] literal: the column ids in order, each with its visible
\* flag (label, className and widths play no part in what is rendered).
columnConfigs(ids, visibleIds) ==
  [i \in 1..Len(ids) |-> [id |-> ids[i], visible |-> ids[i] \in visibleIds]]

toggleEveryColumn(columns, columnId) ==
  [i \in 1..Len(columns) |-> [columns[i] EXCEPT !.visible = ~columns[i].visible]]
toggleColumnVisibility(columns, columnId) ==
  [i \in 1..Len(columns) |->
     IF columns[i].id = columnId
     THEN [columns[i] EXCEPT !.visible = ~columns[i].visible]
     ELSE columns[i]]

showAllColumns(columns) ==
  [i \in 1..Len(columns) |-> [columns[i] EXCEPT !.visible = TRUE]]

hideAllColumns(columns) ==
  [i \in 1..Len(columns) |-> [columns[i] EXCEPT !.visible = FALSE]]

\* columns.filter(column => !excluded.includes(column.id) [&& column.visible])
\* mapped to the ids, in order.
columnIds(columns, excluded, onlyVisible) ==
  LET kept == filter(columns, {c \in Range(columns) :
                                /\ c.id \notin excluded
                                /\ onlyVisible => c.visible})
  IN [i \in 1..Len(kept) |-> kept[i].id]

\* useState initial values of ContainerList; the mount effect has called
\* loadContainers, which is in flight.
ContainerListInit ==
  [containers |-> <<>>, projects |-> <<>>, loading |-> TRUE, error |-> null,
   selectedContainers |-> {}, searchTerm |-> <<>>, showOnlyRunning |-> FALSE,
   showColumnSelector |-> FALSE,
   containerStats |-> {}, statsLoads |-> {}, statsFor |-> <<>>,
   columns |-> columnConfigs(
     <<"name", "image", "containerId", "ports", "cpu", "memoryUsage",
       "memoryPercent", "diskReads", "networkIO", "pids", "lastStarted">>,
     {"name", "image", "containerId", "ports", "cpu", "memoryUsage",
      "memoryPercent", "diskReads"})]

\* loadContainers up to its await.
loadContainersStart(st) == [st EXCEPT !.loading = TRUE, !.error = null]

\* The container predicate without the id field.
matchesContainerNoId(c, term, onlyRunning) ==
  /\ \/ includes(toLowerCase(c.name), toLowerCase(term))
     \/ includes(toLowerCase(c.image), toLowerCase(term))
  /\ (~onlyRunning \/ c.state = "running")

\* The predicate of filteredProjects / individualContainers.
matchesContainer(c, term, onlyRunning) ==
  /\ \/ includes(toLowerCase(c.name), toLowerCase(term))
     \/ includes(toLowerCase(c.image), toLowerCase(term))
     \/ includes(toLowerCase(c.id), toLowerCase(term))
  /\ (~onlyRunning \/ c.state = "running")

filteredProjects(st) ==
  LET mapped == [i \in 1..Len(st.projects) |->
                   [st.projects[i] EXCEPT !.containers =
                      filter(@, {c \in Range(@) :
                                   matchesContainer(c, st.searchTerm, st.showOnlyRunning)})]]
  IN filter(mapped, {p \in Range(mapped) : p.containers # <<>>})

individualContainers(st) ==
  filter(st.containers,
         {c \in Range(st.containers) :
            c.project = <<>> /\ matchesContainer(c, st.searchTerm, st.showOnlyRunning)})

RECURSIVE sumLen(_)
sumLen(ps) == IF ps = <<>> THEN 0 ELSE Len(Head(ps).containers) + sumLen(Tail(ps))

totalFilteredContainers(st) ==
  sumLen(filteredProjects(st)) + Len(individualContainers(st))

\* Which of the three render branches a list component returns.
renderBranch(st) ==
  IF st.loading THEN "loading" ELSE IF st.error # null THEN "error" ELSE "table"

\* The containers whose rows the table holds: the rows of expanded groups, then
\* the standalone rows; none outside the table branch.
containerRows(st) ==
  IF renderBranch(st) # "table" THEN {}
  ELSE UNION {Range(p.containers) : p \in {q \in Range(filteredProjects(st)) : q.isExpanded}}
       \cup Range(individualContainers(st))

\* The header checkbox of the containers table.
containerHeaderChecked(st) ==
  /\ Cardinality(st.selectedContainers) > 0
  /\ Cardinality(st.selectedContainers) = totalFilteredContainers(st)

\* The header checkbox sets no indeterminate property.
containerHeaderIndeterminate(st) == FALSE

\* ------------------------------------------------------------- VolumeList
\* The resizable columns of the volumes table.
initialColumns ==
  <<[id |-> "name", visible |-> TRUE, width |-> 200, minWidth |-> 120, maxWidth |-> 400],
    [id |-> "created", visible |-> TRUE, width |-> 150, minWidth |-> 100, maxWidth |-> 250],
    [id |-> "size", visible |-> TRUE, width |-> 120, minWidth |-> 80, maxWidth |-> 200],
    [id |-> "driver", visible |-> FALSE, width |-> 100, minWidth |-> 80, maxWidth |-> 150],
    [id |-> "scope", visible |-> FALSE, width |-> 100, minWidth |-> 80, maxWidth |-> 150]>>

VolumeListInit ==
  [volumes |-> <<>>, loading |-> TRUE, error |-> null,
   selectedVolumes |-> {}, searchTerm |-> <<>>,
   showColumnSelector |-> FALSE,
   columns |-> initialColumns,
   resize |-> [isResizing |-> FALSE, resizingColumn |-> null,
               startX |-> 0, startWidth |-> 0, listening |-> FALSE]]

loadVolumesStart(st) == [st EXCEPT !.loading = TRUE, !.error = null]

filteredVolumes(st) ==
  filter(st.volumes,
         {v \in Range(st.volumes) :
            includes(toLowerCase(v.name), toLowerCase(st.searchTerm))})

volumeRows(st) ==
  IF renderBranch(st) # "table" THEN {} ELSE Range(filteredVolumes(st))

volumeHeaderChecked(st) ==
  /\ Cardinality(st.selectedVolumes) > 0
  /\ Cardinality(st.selectedVolumes) = Len(filteredVolumes(st))

volumeHeaderIndeterminate(st) == FALSE

\* ------------------------------------------------------------ NetworkList
NetworkListInit ==
  [networks |-> <<>>, loading |-> TRUE, error |-> null,
   selectedNetworks |-> {}, searchTerm |-> <<>>,
   showDeleteModal |-> FALSE, networkToDelete |-> <<>>, isDeleting |-> FALSE,
   showColumnSelector |-> FALSE,
   columns |-> columnConfigs(
     <<"name", "networkId", "driver", "scope", "subnet", "gateway", "created",
       "containers">>,
     {"name", "networkId", "driver", "scope"})]

loadNetworksStart(st) == [st EXCEPT !.loading = TRUE, !.error = null]

isSystemNetwork(networkName) == networkName \in {bridge, host, none}

filteredNetworks(st) ==
  filter(st.networks,
         {n \in Range(st.networks) :
            \/ includes(toLowerCase(n.name), toLowerCase(st.searchTerm))
            \/ includes(toLowerCase(n.id), toLowerCase(st.searchTerm))})

networkRows(st) ==
  IF renderBranch(st) # "table" THEN {} ELSE Range(filteredNetworks(st))

selectableNetworks(st) ==
  filter(filteredNetworks(st),
         {n \in Range(filteredNetworks(st)) : ~isSystemNetwork(n.name)})

networkHeaderChecked(st) ==
  /\ Cardinality(st.selectedNetworks) > 0
  /\ Cardinality(st.selectedNetworks) = Len(selectableNetworks(st))

networkHeaderIndeterminate(st) == FALSE

\* -------------------------------------------------------------- ImageList
ImageListInit == [images |-> <<>>, loading |-> TRUE, error |-> null]

loadImagesStart(st) == [st EXCEPT !.loading = TRUE, !.error = null]

\* ImageList has a fourth branch: the empty state.
imageRenderBranch(st) ==
  IF renderBranch(st) # "table" THEN renderBranch(st)
  ELSE IF st.images = <<>> THEN "empty" ELSE "table"

imageRows(st) ==
  IF imageRenderBranch(st) # "table" THEN {} ELSE Range(st.images)

\* ------------------------------------------------- actions and their effects
\* Row-level and view-level state of the action handlers, and what a step
\* hands to the outside: the bridge calls it issues, the blocking prompt it
\* shows, the bridge response it consumes.
VARIABLES
  rowDeleteModal,   \* the row whose showDeleteModal is true, as a sequence of at most one entity
  pending,          \* action bridge calls in flight
  fanouts,          \* handleProjectAction invocations awaiting Promise.all
  containerDetail,  \* the mounted ContainerDetail, as a sequence of at most one record
  invoked,          \* bridge calls issued by the last step, in order
  prompt,           \* confirm(), alert() or delete modal answered in the last step
  response          \* bridge response delivered in the last step

actionVars == <<rowDeleteModal, pending, fanouts, containerDetail>>
outputVars == <<invoked, prompt, response>>

\* The Terminal page and the event subscriptions of the webview.
VARIABLES
  terminal,         \* Terminal component state and its commands in flight
  events            \* listen() registrations: effect runs and subscribed handlers

viewVars == <<terminal, events>>

call(origin, cmd, arg) == [origin |-> origin, cmd |-> cmd, arg |-> arg]

NoPrompt == [kind |-> "none", target |-> <<>>, message |-> <<>>, answer |-> FALSE]

resolved(c) == <<[origin |-> c.origin, cmd |-> c.cmd, arg |-> c.arg, ok |-> TRUE, error |-> <<>>]>>
rejected(c, err) == <<[origin |-> c.origin, cmd |-> c.cmd, arg |-> c.arg, ok |-> FALSE, error |-> err]>>

\* What the step hands to the outside.
Outputs(inv, pr, resp) ==
  /\ invoked' = inv
  /\ prompt' = pr
  /\ response' = resp

\* A step of pure local state.
Local == Outputs(<<>>, NoPrompt, <<>>)

listCall(page) ==
  CASE page = "containers" -> call("loadContainers", "list_containers", <<>>)
    [] page = "images" -> call("loadImages", "list_images", <<>>)
    [] page = "volumes" -> call("loadVolumes", "list_volumes", <<>>)
    [] page = "networks" -> call("loadNetworks", "list_networks", <<>>)
    [] page = "terminal" -> call("initializeTerminal", "get_home_directory", <<>>)

\* A continuation whose component has unmounted still runs, but its state
\* setters do nothing.
unmount(calls) == {[c EXCEPT !.mounted = FALSE] : c \in calls}
unmountAll(fs) == [i \in 1..Len(fs) |-> [fs[i] EXCEPT !.mounted = FALSE]]

\* --------------------------------------------- ContainerDetail: listeners
\* The events each listener effect of ContainerDetail subscribes to, in the
\* order of its awaited listen() calls.
EffectEvents ==
  [log |-> <<"log-stream", "log-stream-error", "log-stream-ended">>,
   exec |-> <<"exec-output", "exec-error", "exec-ended">>]

\* The two listener effects of a mounting ContainerDetail: each has called
\* its first listen(), none has resolved.
setupListeners(containerId) ==
  {[containerId |-> containerId, kind |-> k, registered |-> 0, cleaned |-> FALSE] :
     k \in DOMAIN EffectEvents}

\* The effect cleanups: each calls the unlisten functions its effect has been
\* handed so far; the listen() calls still to resolve are not affected.
cleanup(ev) ==
  [effects |-> {[e EXCEPT !.cleaned = TRUE] :
                  e \in {x \in ev.effects : x.registered < Len(EffectEvents[x.kind])}},
   handlers |-> {h \in ev.handlers : h.leaked}]

\* The cleanup of the log listener effect calls stopLogStream when the render
\* it belongs to had isStreaming true; the call is made at every cleanup, on a
\* change of containerId, autoScroll or isStreaming as well as on unmount.
logEffectCleanup(detail) ==
  IF detail # <<>> /\ detail[1].isStreaming
  THEN <<call("ContainerDetail.stopLogStream", "stop_log_stream", detail[1].containerId)>>
  ELSE <<>>

\* The log listener effect runs again after a change of one of its
\* dependencies: the cleanup of the earlier run, then a new setupListeners.
rerunLogEffect(ev, containerId) ==
  LET earlier == {e \in ev.effects : e.kind = "log" /\ e.containerId = containerId}
      logEvents == Range(EffectEvents["log"])
  IN [effects |-> (ev.effects \ earlier) \cup
                  {[e EXCEPT !.cleaned = TRUE] :
                     e \in {x \in earlier : x.registered < Len(EffectEvents[x.kind])}} \cup
                  {[containerId |-> containerId, kind |-> "log",
                    registered |-> 0, cleaned |-> FALSE]},
      handlers |-> {h \in ev.handlers :
                      h.leaked \/ h.containerId # containerId \/ h.event \notin logEvents}]

\* ------------------------------------------------------- Terminal: state
\* A bridge call of the Terminal in flight: the closure of its continuation
\* holds the active session id and the entry id of the handler run.
terminalCall(origin, cmd, arg, sessionId, entryId) ==
  [origin |-> origin, cmd |-> cmd, arg |-> arg, sessionId |-> sessionId,
   entryId |-> entryId, mounted |-> TRUE]

\* useState initial values of Terminal.  Session ids and entry ids are the
\* counters sessionCount and entryCount; activeSessionId 0 is the empty id.
TerminalInit ==
  [sessions |-> <<>>, activeSessionId |-> 0, currentCommand |-> <<>>,
   isExecuting |-> FALSE, sessionCount |-> 0, entryCount |-> 0, calls |-> {}]

\* The Terminal that handleNavigation leaves behind or mounts: the calls of
\* the old one stay in flight, and the mount effect runs initializeTerminal.
TerminalAfterNavigation(key) ==
  [TerminalInit EXCEPT !.calls =
     unmount(terminal.calls) \cup
     (IF key = "terminal"
      THEN {terminalCall("initializeTerminal", "get_home_directory", <<>>, 0, 0)}
      ELSE {})]

\* ------------------------------------------------------------------- App
\* The state after construction: App mounts ContainerList, whose mount effect
\* has issued list_containers.  A component that is not mounted has no state;
\* its slot holds the values it will mount with.
Init ==
  /\ activePage = "containers"
  /\ containerList = ContainerListInit
  /\ volumeList = VolumeListInit
  /\ networkList = NetworkListInit
  /\ imageList = ImageListInit
  /\ listCalls = 1
  /\ rowDeleteModal = <<>>
  /\ pending = {}
  /\ fanouts = <<>>
  /\ containerDetail = <<>>
  /\ invoked = <<listCall("containers")>>
  /\ prompt = NoPrompt
  /\ response = <<>>
  /\ terminal = TerminalInit
  /\ events = [effects |-> {}, handlers |-> {}]

\* handleNavigation: the old page unmounts, the new one mounts and loads.
handleNavigation(key) ==
  /\ key # activePage
  /\ activePage' = key
  /\ containerList' = ContainerListInit
  /\ volumeList' = VolumeListInit
  /\ networkList' = NetworkListInit
  /\ imageList' = ImageListInit
  /\ listCalls' = IF key = "terminal" THEN 0 ELSE 1
  /\ rowDeleteModal' = <<>>
  /\ pending' = unmount(pending)
  /\ fanouts' = unmountAll(fanouts)
  /\ containerDetail' = <<>>
  /\ terminal' = TerminalAfterNavigation(key)
  /\ events' = cleanup(events)
  /\ Outputs(logEffectCleanup(containerDetail) \o <<listCall(key)>>, NoPrompt, <<>>)

\* --------------------------------------------- list view events: containers
\* No delete modal covers the page.
Uncovered ==
  /\ rowDeleteModal = <<>>
  /\ ~networkList.showDeleteModal

\* The Refresh button of the table branch, or the retry button of the error
\* branch.  Leaving the table branch unmounts the rows.
RefreshContainers ==
  /\ listCalls < MaxListCalls
  /\ activePage = "containers"
  /\ Uncovered
  /\ renderBranch(containerList) \in {"table", "error"}
  /\ containerList' = loadContainersStart(containerList)
  /\ listCalls' = listCalls + 1
  /\ Outputs(<<listCall("containers")>>, NoPrompt, <<>>)
  /\ UNCHANGED <<activePage, volumeList, networkList, imageList, actionVars>>
  /\ UNCHANGED viewVars

ListContainersResolved(list) ==
  /\ activePage = "containers"
  /\ listCalls > 0
  /\ containerList' = [containerList EXCEPT !.containers = list,
                                       !.projects = groupContainersByProject(list),
                                       !.loading = FALSE]
  /\ listCalls' = listCalls - 1
  /\ Outputs(<<>>, NoPrompt, resolved(listCall("containers")))
  /\ UNCHANGED <<activePage, volumeList, networkList, imageList, actionVars>>
  /\ UNCHANGED viewVars

ListContainersRejected(err) ==
  /\ activePage = "containers"
  /\ listCalls > 0
  /\ containerList' = [containerList EXCEPT !.error = err, !.loading = FALSE]
  /\ listCalls' = listCalls - 1
  /\ Outputs(<<>>, NoPrompt, rejected(listCall("containers"), err))
  /\ UNCHANGED <<activePage, volumeList, networkList, imageList, actionVars>>
  /\ UNCHANGED viewVars

\* onChange of the search input.
SetContainerSearchTerm(term) ==
  /\ activePage = "containers"
  /\ Uncovered
  /\ renderBranch(containerList) = "table"
  /\ term # containerList.searchTerm
  /\ containerList' = [containerList EXCEPT !.searchTerm = term]
  /\ Local
  /\ UNCHANGED <<activePage, volumeList, networkList, imageList, listCalls, actionVars>>
  /\ UNCHANGED viewVars

\* onChange of the "Only show running containers" checkbox.
SetShowOnlyRunning ==
  /\ activePage = "containers"
  /\ Uncovered
  /\ renderBranch(containerList) = "table"
  /\ containerList' = [containerList EXCEPT !.showOnlyRunning = ~@]
  /\ Local
  /\ UNCHANGED <<activePage, volumeList, networkList, imageList, listCalls, actionVars>>
  /\ UNCHANGED viewVars

\* onChange of the checkbox of a rendered row.
ToggleContainerSelection(c) ==
  /\ activePage = "containers"
  /\ Uncovered
  /\ c \in containerRows(containerList)
  /\ containerList' = [containerList EXCEPT !.selectedContainers =
                        IF c.id \in @ THEN @ \ {c.id} ELSE @ \cup {c.id}]
  /\ Local
  /\ UNCHANGED <<activePage, volumeList, networkList, imageList, listCalls, actionVars>>
  /\ UNCHANGED viewVars

ContainerHeaderOnChange ==
  /\ activePage = "containers"
  /\ Uncovered
  /\ renderBranch(containerList) = "table"
  /\ containerList' =
       IF Cardinality(containerList.selectedContainers) = totalFilteredContainers(containerList)
         THEN [containerList EXCEPT !.selectedContainers = {}]
         ELSE [containerList EXCEPT !.selectedContainers =
                 {c.id : c \in UNION {Range(p.containers) : p \in Range(filteredProjects(containerList))}}
                 \cup {c.id : c \in Range(individualContainers(containerList))}]
  /\ Local
  /\ UNCHANGED <<activePage, volumeList, networkList, imageList, listCalls, actionVars>>
  /\ UNCHANGED viewVars

\* The expand button of a rendered project header.
ToggleProjectExpansion(projectName) ==
  /\ activePage = "containers"
  /\ Uncovered
  /\ renderBranch(containerList) = "table"
  /\ \E p \in Range(filteredProjects(containerList)) : p.name = projectName
  /\ containerList' =
       LET ps == containerList.projects
       IN [containerList EXCEPT !.projects =
             [i \in 1..Len(ps) |->
                IF ps[i].name = projectName
                THEN [ps[i] EXCEPT !.isExpanded = ~ps[i].isExpanded]
                ELSE ps[i]]]
  /\ Local
  /\ UNCHANGED <<activePage, volumeList, networkList, imageList, listCalls, actionVars>>
  /\ UNCHANGED viewVars

\* The checkbox of a rendered project header: toggleProjectSelection.
ToggleProjectSelection(projectName) ==
  /\ activePage = "containers"
  /\ Uncovered
  /\ renderBranch(containerList) = "table"
  /\ \E p \in Range(filteredProjects(containerList)) : p.name = projectName
  /\ LET project == CHOOSE p \in Range(containerList.projects) : p.name = projectName
         containerIds == {c.id : c \in Range(project.containers)}
     IN containerList' = [containerList EXCEPT !.selectedContainers =
                            IF containerIds \subseteq @ THEN @ \ containerIds
                            ELSE @ \cup containerIds]
  /\ Local
  /\ UNCHANGED <<activePage, volumeList, networkList, imageList, listCalls, actionVars>>
  /\ UNCHANGED viewVars

\* ------------------------------------------------ list view events: volumes
RefreshVolumes ==
  /\ listCalls < MaxListCalls
  /\ activePage = "volumes"
  /\ Uncovered
  /\ renderBranch(volumeList) \in {"table", "error"}
  /\ volumeList' = loadVolumesStart(volumeList)
  /\ listCalls' = listCalls + 1
  /\ Outputs(<<listCall("volumes")>>, NoPrompt, <<>>)
  /\ UNCHANGED <<activePage, containerList, networkList, imageList, actionVars>>
  /\ UNCHANGED viewVars

ListVolumesResolved(list) ==
  /\ activePage = "volumes"
  /\ listCalls > 0
  /\ volumeList' = [volumeList EXCEPT !.volumes = list, !.loading = FALSE]
  /\ listCalls' = listCalls - 1
  /\ Outputs(<<>>, NoPrompt, resolved(listCall("volumes")))
  /\ UNCHANGED <<activePage, containerList, networkList, imageList, actionVars>>
  /\ UNCHANGED viewVars

ListVolumesRejected(err) ==
  /\ activePage = "volumes"
  /\ listCalls > 0
  /\ volumeList' = [volumeList EXCEPT !.error = err, !.loading = FALSE]
  /\ listCalls' = listCalls - 1
  /\ Outputs(<<>>, NoPrompt, rejected(listCall("volumes"), err))
  /\ UNCHANGED <<activePage, containerList, networkList, imageList, actionVars>>
  /\ UNCHANGED viewVars

SetVolumeSearchTerm(term) ==
  /\ activePage = "volumes"
  /\ Uncovered
  /\ renderBranch(volumeList) = "table"
  /\ term # volumeList.searchTerm
  /\ volumeList' = [volumeList EXCEPT !.searchTerm = term]
  /\ Local
  /\ UNCHANGED <<activePage, containerList, networkList, imageList, listCalls, actionVars>>
  /\ UNCHANGED viewVars

ToggleVolumeSelection(x) ==
  /\ activePage = "volumes"
  /\ Uncovered
  /\ x \in volumeRows(volumeList)
  /\ volumeList' = [volumeList EXCEPT !.selectedVolumes =
                        IF x.name \in @ THEN @ \ {x.name} ELSE @ \cup {x.name}]
  /\ Local
  /\ UNCHANGED <<activePage, containerList, networkList, imageList, listCalls, actionVars>>
  /\ UNCHANGED viewVars

VolumeHeaderOnChange ==
  /\ activePage = "volumes"
  /\ Uncovered
  /\ renderBranch(volumeList) = "table"
  /\ volumeList' =
       IF Cardinality(volumeList.selectedVolumes) = Len(filteredVolumes(volumeList))
         THEN [volumeList EXCEPT !.selectedVolumes = {}]
         ELSE [volumeList EXCEPT !.selectedVolumes = {v.name : v \in Range(filteredVolumes(volumeList))}]
  /\ Local
  /\ UNCHANGED <<activePage, containerList, networkList, imageList, listCalls, actionVars>>
  /\ UNCHANGED viewVars

\* ----------------------------------------------- list view events: networks
\* The row checkbox is disabled for a system network.
RefreshNetworks ==
  /\ listCalls < MaxListCalls
  /\ activePage = "networks"
  /\ Uncovered
  /\ renderBranch(networkList) \in {"table", "error"}
  /\ networkList' = loadNetworksStart(networkList)
  /\ listCalls' = listCalls + 1
  /\ Outputs(<<listCall("networks")>>, NoPrompt, <<>>)
  /\ UNCHANGED <<activePage, containerList, volumeList, imageList, actionVars>>
  /\ UNCHANGED viewVars

ListNetworksResolved(list) ==
  /\ activePage = "networks"
  /\ listCalls > 0
  /\ networkList' = [networkList EXCEPT !.networks = list, !.loading = FALSE]
  /\ listCalls' = listCalls - 1
  /\ Outputs(<<>>, NoPrompt, resolved(listCall("networks")))
  /\ UNCHANGED <<activePage, containerList, volumeList, imageList, actionVars>>
  /\ UNCHANGED viewVars

ListNetworksRejected(err) ==
  /\ activePage = "networks"
  /\ listCalls > 0
  /\ networkList' = [networkList EXCEPT !.error = err, !.loading = FALSE]
  /\ listCalls' = listCalls - 1
  /\ Outputs(<<>>, NoPrompt, rejected(listCall("networks"), err))
  /\ UNCHANGED <<activePage, containerList, volumeList, imageList, actionVars>>
  /\ UNCHANGED viewVars

SetNetworkSearchTerm(term) ==
  /\ activePage = "networks"
  /\ Uncovered
  /\ renderBranch(networkList) = "table"
  /\ term # networkList.searchTerm
  /\ networkList' = [networkList EXCEPT !.searchTerm = term]
  /\ Local
  /\ UNCHANGED <<activePage, containerList, volumeList, imageList, listCalls, actionVars>>
  /\ UNCHANGED viewVars

ToggleNetworkSelection(x) ==
  /\ activePage = "networks"
  /\ Uncovered
  /\ x \in networkRows(networkList)
  /\ ~isSystemNetwork(x.name)
  /\ networkList' = [networkList EXCEPT !.selectedNetworks =
                        IF x.id \in @ THEN @ \ {x.id} ELSE @ \cup {x.id}]
  /\ Local
  /\ UNCHANGED <<activePage, containerList, volumeList, imageList, listCalls, actionVars>>
  /\ UNCHANGED viewVars

NetworkHeaderOnChange ==
  /\ activePage = "networks"
  /\ Uncovered
  /\ renderBranch(networkList) = "table"
  /\ networkList' =
       IF Cardinality(networkList.selectedNetworks) = Len(selectableNetworks(networkList))
         THEN [networkList EXCEPT !.selectedNetworks = {}]
         ELSE [networkList EXCEPT !.selectedNetworks = {n.id : n \in Range(selectableNetworks(networkList))}]
  /\ Local
  /\ UNCHANGED <<activePage, containerList, volumeList, imageList, listCalls, actionVars>>
  /\ UNCHANGED viewVars

\* The earlier NetworkList: its rows are all loaded networks, no row checkbox
\* is disabled, and the header checkbox selects every loaded network.
EarlierToggleNetworkSelection(x) ==
  /\ activePage = "networks"
  /\ Uncovered
  /\ renderBranch(networkList) = "table"
  /\ x \in Range(networkList.networks)
  /\ networkList' = [networkList EXCEPT !.selectedNetworks =
                        IF x.id \in @ THEN @ \ {x.id} ELSE @ \cup {x.id}]
  /\ Local
  /\ UNCHANGED <<activePage, containerList, volumeList, imageList, listCalls, actionVars>>
  /\ UNCHANGED viewVars

EarlierNetworkHeaderOnChange ==
  /\ activePage = "networks"
  /\ Uncovered
  /\ renderBranch(networkList) = "table"
  /\ networkList' =
       IF Cardinality(networkList.selectedNetworks) = Len(networkList.networks)
         THEN [networkList EXCEPT !.selectedNetworks = {}]
         ELSE [networkList EXCEPT !.selectedNetworks = {n.id : n \in Range(networkList.networks)}]
  /\ Local
  /\ UNCHANGED <<activePage, containerList, volumeList, imageList, listCalls, actionVars>>
  /\ UNCHANGED viewVars

\* ------------------------------------------------- list view events: images
\* Refresh (table and empty branches) or retry (error branch).
RefreshImages ==
  /\ listCalls < MaxListCalls
  /\ activePage = "images"
  /\ Uncovered
  /\ imageRenderBranch(imageList) \in {"table", "empty", "error"}
  /\ imageList' = loadImagesStart(imageList)
  /\ listCalls' = listCalls + 1
  /\ Outputs(<<listCall("images")>>, NoPrompt, <<>>)
  /\ UNCHANGED <<activePage, containerList, volumeList, networkList, actionVars>>
  /\ UNCHANGED viewVars

ListImagesResolved(list) ==
  /\ activePage = "images"
  /\ listCalls > 0
  /\ imageList' = [imageList EXCEPT !.images = list, !.loading = FALSE]
  /\ listCalls' = listCalls - 1
  /\ Outputs(<<>>, NoPrompt, resolved(listCall("images")))
  /\ UNCHANGED <<activePage, containerList, volumeList, networkList, actionVars>>
  /\ UNCHANGED viewVars

ListImagesRejected(err) ==
  /\ activePage = "images"
  /\ listCalls > 0
  /\ imageList' = [imageList EXCEPT !.error = err, !.loading = FALSE]
  /\ listCalls' = listCalls - 1
  /\ Outputs(<<>>, NoPrompt, rejected(listCall("images"), err))
  /\ UNCHANGED <<activePage, containerList, volumeList, networkList, actionVars>>
  /\ UNCHANGED viewVars

ProjectNames == {c.project : c \in ContainerPool} \ {<<>>}

vars == <<listVars, actionVars, outputVars, viewVars>>

\* The list views: loading, searching, selecting, expanding, navigating.
ListNext ==
  \/ \E key \in Pages : handleNavigation(key)
  \/ RefreshContainers
  \/ \E list \in ContainerLists : ListContainersResolved(list)
  \/ \E err \in ListErrors : ListContainersRejected(err)
  \/ \E term \in SearchTerms : SetContainerSearchTerm(term)
  \/ SetShowOnlyRunning
  \/ \E c \in ContainerPool : ToggleContainerSelection(c)
  \/ ContainerHeaderOnChange
  \/ \E projectName \in ProjectNames : ToggleProjectExpansion(projectName)
  \/ RefreshVolumes
  \/ \E list \in VolumeLists : ListVolumesResolved(list)
  \/ \E err \in ListErrors : ListVolumesRejected(err)
  \/ \E term \in SearchTerms : SetVolumeSearchTerm(term)
  \/ \E v \in VolumePool : ToggleVolumeSelection(v)
  \/ VolumeHeaderOnChange
  \/ RefreshNetworks
  \/ \E list \in NetworkLists : ListNetworksResolved(list)
  \/ \E err \in ListErrors : ListNetworksRejected(err)
  \/ \E term \in SearchTerms : SetNetworkSearchTerm(term)
  \/ \E n \in NetworkPool : ToggleNetworkSelection(n)
  \/ NetworkHeaderOnChange
  \/ RefreshImages
  \/ \E list \in ImageLists : ListImagesResolved(list)
  \/ \E err \in ListErrors : ListImagesRejected(err)

SpecLists == Init /\ [][ListNext]_vars

\* ------------------------------------------------- properties of the lists
\* What the mounted list view shows of its collection.
containerFiltered(st) ==
  UNION {Range(p.containers) : p \in Range(filteredProjects(st))}
  \cup Range(individualContainers(st))

\* C1: when a refresh fails after an earlier load succeeded (the stored
\* collection is not empty), the previously loaded data is still what the list
\* view displays: its rows are those it would show without the failure.
C1_StaleDataStillDisplayed ==
  /\ (/\ activePage = "containers"
      /\ renderBranch(containerList) = "error"
      /\ containerList.containers # <<>>)
       => containerRows(containerList)
            = containerRows([containerList EXCEPT !.error = null])
  /\ (/\ activePage = "volumes"
      /\ renderBranch(volumeList) = "error"
      /\ volumeList.volumes # <<>>)
       => volumeRows(volumeList) = volumeRows([volumeList EXCEPT !.error = null])
  /\ (/\ activePage = "networks"
      /\ renderBranch(networkList) = "error"
      /\ networkList.networks # <<>>)
       => networkRows(networkList) = networkRows([networkList EXCEPT !.error = null])
  /\ (/\ activePage = "images"
      /\ renderBranch(imageList) = "error"
      /\ imageList.images # <<>>)
       => imageRows(imageList) = imageRows([imageList EXCEPT !.error = null])

\* What C2 requires of a header checkbox for selection sel over the ids of the
\* filtered view.
headerAgrees(checked, indeterminate, sel, ids) ==
  /\ checked <=> (sel # {} /\ sel = ids)
  /\ indeterminate <=> (sel # {} /\ sel \subseteq ids /\ sel # ids)

\* C2: in every state of a list view the header checkbox is checked iff the
\* selection equals the ids of the filtered view, indeterminate iff the
\* selection is a non-empty proper subset of them, unchecked iff it is empty.
C2_HeaderReflectsSelection ==
  /\ (activePage = "containers" /\ renderBranch(containerList) = "table")
       => headerAgrees(containerHeaderChecked(containerList),
                       containerHeaderIndeterminate(containerList),
                       containerList.selectedContainers,
                       {c.id : c \in containerFiltered(containerList)})
  /\ (activePage = "volumes" /\ renderBranch(volumeList) = "table")
       => headerAgrees(volumeHeaderChecked(volumeList),
                       volumeHeaderIndeterminate(volumeList),
                       volumeList.selectedVolumes,
                       {v.name : v \in Range(filteredVolumes(volumeList))})
  /\ (activePage = "networks" /\ renderBranch(networkList) = "table")
       => headerAgrees(networkHeaderChecked(networkList),
                       networkHeaderIndeterminate(networkList),
                       networkList.selectedNetworks,
                       {n.id : n \in Range(selectableNetworks(networkList))})

\* C5: a project group the user collapsed is still collapsed after a load that
\* returns a collection still holding a group of that name.
C5_CollapseSurvivesRefresh ==
  [][activePage' = activePage =>
       \A i \in 1..Len(containerList.projects) :
         \A j \in 1..Len(containerList'.projects) :
           (/\ containerList.projects[i].name = containerList'.projects[j].name
            /\ ~containerList.projects[i].isExpanded)
             => ~containerList'.projects[j].isExpanded]_vars

\* Case-insensitive containment, stated on pairs of letters that differ only
\* in case.
CasePairs == {<<"A", "a">>, <<"B", "b">>, <<"W", "w">>}
sameLetter(a, b) == a = b \/ <<a, b>> \in CasePairs \/ <<b, a>> \in CasePairs
containsIgnoringCase(s, t) ==
  \E off \in 0..Len(s) :
    /\ off + Len(t) <= Len(s)
    /\ \A k \in 1..Len(t) : sameLetter(s[off + k], t[k])

\* The entities of f stand in the order they have in the collection s.
inOrderOf(f, s) ==
  \A i, j \in 1..Len(f) :
    i < j => \E a, b \in 1..Len(s) : a < b /\ s[a] = f[i] /\ s[b] = f[j]

containerMatch(c, term) ==
  \/ containsIgnoringCase(c.name, term)
  \/ containsIgnoringCase(c.image, term)
  \/ containsIgnoringCase(c.id, term)

volumesViewExact ==
  /\ Range(filteredVolumes(volumeList))
       = {v \in Range(volumeList.volumes) :
            containsIgnoringCase(v.name, volumeList.searchTerm)}
  /\ inOrderOf(filteredVolumes(volumeList), volumeList.volumes)

networksViewExact ==
  /\ Range(filteredNetworks(networkList))
       = {n \in Range(networkList.networks) :
            \/ containsIgnoringCase(n.name, networkList.searchTerm)
            \/ containsIgnoringCase(n.id, networkList.searchTerm)}
  /\ inOrderOf(filteredNetworks(networkList), networkList.networks)

\* Changing the search string of the mounted list leaves its collection alone.
filterKeepsCollections ==
  [][activePage' = activePage =>
       /\ (containerList'.searchTerm # containerList.searchTerm
             => /\ containerList'.containers = containerList.containers
                /\ containerList'.projects = containerList.projects)
       /\ (volumeList'.searchTerm # volumeList.searchTerm
             => volumeList'.volumes = volumeList.volumes)
       /\ (networkList'.searchTerm # networkList.searchTerm
             => networkList'.networks = networkList.networks)]_vars

ActionErrors ==
  {<<"resource", "is", "in", "use">>,
   <<"not", "found">>,
   <<"timeout">>}

Outcomes ==
  {[ok |-> TRUE, error |-> <<>>]} \cup {[ok |-> FALSE, error |-> e] : e \in ActionErrors}

settled(c, out) == IF out.ok THEN resolved(c) ELSE rejected(c, out.error)

inflight(origin, cmd, arg) ==
  [origin |-> origin, cmd |-> cmd, arg |-> arg, mounted |-> TRUE]

\* `${action}_container`
containerCommand(action) ==
  CASE action = "start" -> "start_container"
    [] action = "stop" -> "stop_container"
    [] action = "restart" -> "restart_container"
    [] action = "remove" -> "remove_container"

alert(target, message) ==
  [kind |-> "alert", target |-> target, message |-> message, answer |-> TRUE]
confirm(target, answer) ==
  [kind |-> "confirm", target |-> target, message |-> <<>>, answer |-> answer]
modalAnswer(target, answer) ==
  [kind |-> "modal", target |-> target, message |-> <<>>, answer |-> answer]

\* disabled={isLoading}: the row has no call of its own in flight.
rowIdle(arg) == ~\E p \in pending : p.arg = arg /\ p.mounted

CanInvoke == Cardinality(pending) + Len(fanouts) < MaxPending

\* A handler that goes on to reload the mounted list.
CanReload(mounted) == mounted => listCalls < MaxListCalls

\* ContainerRow: displayMessage of handleAction's and handleRemove's catch.
containerDisplayMessage(action, errorMessage) ==
  <<"Failed", "to", action, "container:">> \o errorMessage \o
  (IF action = "remove"
   THEN IF includes(errorMessage, <<"in", "use">>)
        THEN <<"Tip:", "stop", "first">>
        ELSE IF \/ includes(errorMessage, <<"permission", "denied">>)
                \/ includes(errorMessage, <<"access", "denied">>)
        THEN <<"Tip:", "permission">>
        ELSE IF includes(errorMessage, <<"connect">>) \/ includes(errorMessage, <<"socket">>)
        THEN <<"Tip:", "Docker", "Desktop">>
        ELSE <<>>
   ELSE IF includes(errorMessage, <<"not", "running">>) /\ action = "stop"
        THEN <<"Tip:", "already", "stopped">>
        ELSE IF includes(errorMessage, <<"already", "running">>) /\ action = "start"
        THEN <<"Tip:", "already", "running">>
        ELSE IF \/ includes(errorMessage, <<"permission", "denied">>)
                \/ includes(errorMessage, <<"access", "denied">>)
        THEN <<"Tip:", "permission">>
        ELSE IF includes(errorMessage, <<"connect">>) \/ includes(errorMessage, <<"socket">>)
        THEN <<"Tip:", "Docker", "Desktop">>
        ELSE <<>>)

\* ContainerRow.handleAction: remove opens the delete modal, anything else
\* calls the bridge.
ContainerRowHandleAction(c, action) ==
  /\ activePage = "containers"
  /\ Uncovered
  /\ c \in containerRows(containerList)
  /\ rowIdle(c.id)
  /\ action \in (IF c.state = "running" THEN {"stop"} ELSE {"start"}) \cup {"restart", "remove"}
  /\ IF action = "remove"
     THEN /\ rowDeleteModal' = <<c>>
          /\ Local
          /\ UNCHANGED pending
     ELSE /\ CanInvoke
          /\ pending' = pending \cup {inflight("ContainerRow.handleAction", containerCommand(action), c.id)}
          /\ Outputs(<<call("ContainerRow.handleAction", containerCommand(action), c.id)>>,
                     NoPrompt, <<>>)
          /\ UNCHANGED rowDeleteModal
  /\ UNCHANGED <<listVars, fanouts, containerDetail>>
  /\ UNCHANGED viewVars

\* onClose of the delete modal of a container or volume row.
DeleteModalOnClose ==
  /\ activePage \in {"containers", "volumes"}
  /\ rowDeleteModal # <<>>
  /\ rowDeleteModal' = <<>>
  /\ Outputs(<<>>,
             modalAnswer(IF activePage = "containers" THEN rowDeleteModal[1].id
                         ELSE rowDeleteModal[1].name, FALSE),
             <<>>)
  /\ UNCHANGED <<listVars, pending, fanouts, containerDetail>>
  /\ UNCHANGED viewVars

\* onConfirm of the delete modal: ContainerRow.handleRemove up to its await.
ContainerRowHandleRemove ==
  /\ activePage = "containers"
  /\ rowDeleteModal # <<>>
  /\ rowIdle(rowDeleteModal[1].id)
  /\ CanInvoke
  /\ pending' = pending \cup
       {inflight("ContainerRow.handleRemove", "remove_container", rowDeleteModal[1].id)}
  /\ Outputs(<<call("ContainerRow.handleRemove", "remove_container", rowDeleteModal[1].id)>>,
             modalAnswer(rowDeleteModal[1].id, TRUE), <<>>)
  /\ UNCHANGED <<listVars, rowDeleteModal, fanouts, containerDetail>>
  /\ UNCHANGED viewVars

\* The verb of a container command.
actionOf(cmd) ==
  CASE cmd = "start_container" -> "start"
    [] cmd = "stop_container" -> "stop"
    [] cmd = "restart_container" -> "restart"
    [] cmd = "remove_container" -> "remove"

\* ContainerRow.handleAction / handleRemove after the await: the success
\* alert and onUpdate, or the catch; then finally.
ContainerRowSettled(p, out) ==
  /\ p \in pending
  /\ CanReload(out.ok /\ p.mounted)
  /\ p.origin \in {"ContainerRow.handleAction", "ContainerRow.handleRemove"}
  /\ pending' = pending \ {p}
  /\ response' = settled(p, out)
  /\ prompt' = alert(p.arg, IF out.ok THEN <<actionOf(p.cmd), "successfully!">>
                            ELSE containerDisplayMessage(actionOf(p.cmd), out.error))
  /\ invoked' = IF out.ok THEN <<listCall("containers")>> ELSE <<>>
  /\ IF out.ok /\ p.mounted
     THEN /\ containerList' = loadContainersStart(containerList)
          /\ listCalls' = listCalls + 1
          /\ rowDeleteModal' = <<>>
     ELSE /\ UNCHANGED <<containerList, listCalls>>
          /\ rowDeleteModal' =
               IF /\ p.mounted
                  /\ p.origin = "ContainerRow.handleRemove"
                  /\ rowDeleteModal # <<>>
                  /\ rowDeleteModal[1].id = p.arg
               THEN <<>> ELSE rowDeleteModal
  /\ UNCHANGED <<activePage, volumeList, networkList, imageList, fanouts, containerDetail>>
  /\ UNCHANGED viewVars

\* ---------------------------------------------------------------- VolumeRow
\* displayMessage of VolumeRow.handleRemove's catch.
volumeDisplayMessage(errorMessage) ==
  <<"Failed", "to", "remove", "volume:">> \o errorMessage \o
  (IF \/ includes(errorMessage, <<"in", "use">>)
      \/ includes(errorMessage, <<"volume", "is", "in", "use">>)
   THEN <<"Tip:", "stop", "and", "remove", "the", "container">>
   ELSE IF \/ includes(errorMessage, <<"permission", "denied">>)
           \/ includes(errorMessage, <<"access", "denied">>)
   THEN <<"Tip:", "permission">>
   ELSE IF includes(errorMessage, <<"connect">>) \/ includes(errorMessage, <<"socket">>)
   THEN <<"Tip:", "Docker", "Desktop">>
   ELSE IF \/ includes(errorMessage, <<"No", "such", "volume">>)
           \/ includes(errorMessage, <<"not", "found">>)
   THEN <<"Tip:", "already", "removed">>
   ELSE <<>>)

VolumeRowHandleDeleteClick(v) ==
  /\ activePage = "volumes"
  /\ Uncovered
  /\ v \in volumeRows(volumeList)
  /\ rowIdle(v.name)
  /\ rowDeleteModal' = <<v>>
  /\ Local
  /\ UNCHANGED <<listVars, pending, fanouts, containerDetail>>
  /\ UNCHANGED viewVars

\* onConfirm of the delete modal: VolumeRow.handleRemove up to its await.
VolumeRowHandleRemove ==
  /\ activePage = "volumes"
  /\ rowDeleteModal # <<>>
  /\ rowIdle(rowDeleteModal[1].name)
  /\ CanInvoke
  /\ pending' = pending \cup
       {inflight("VolumeRow.handleRemove", "remove_volume", rowDeleteModal[1].name)}
  /\ Outputs(<<call("VolumeRow.handleRemove", "remove_volume", rowDeleteModal[1].name)>>,
             modalAnswer(rowDeleteModal[1].name, TRUE), <<>>)
  /\ UNCHANGED <<listVars, rowDeleteModal, fanouts, containerDetail>>
  /\ UNCHANGED viewVars

VolumeRowSettled(p, out) ==
  /\ p \in pending
  /\ CanReload(out.ok /\ p.mounted)
  /\ p.origin = "VolumeRow.handleRemove"
  /\ pending' = pending \ {p}
  /\ response' = settled(p, out)
  /\ prompt' = alert(p.arg, IF out.ok THEN <<"removed", "successfully!">>
                            ELSE volumeDisplayMessage(out.error))
  /\ invoked' = IF out.ok THEN <<listCall("volumes")>> ELSE <<>>
  /\ IF out.ok /\ p.mounted
     THEN /\ volumeList' = loadVolumesStart(volumeList)
          /\ listCalls' = listCalls + 1
     ELSE UNCHANGED <<volumeList, listCalls>>
  /\ rowDeleteModal' =
       IF /\ p.mounted
          /\ rowDeleteModal # <<>>
          /\ (out.ok \/ rowDeleteModal[1].name = p.arg)
       THEN <<>> ELSE rowDeleteModal
  /\ UNCHANGED <<activePage, containerList, networkList, imageList, fanouts, containerDetail>>
  /\ UNCHANGED viewVars

\* ----------------------------------------------------------------- networks
\* A test that lets every name through.
rejectsNoNetwork(networkName) == FALSE

\* The handlers' own test of the network name.
rejectsNetwork(networkName) == networkName \in {bridge, host, none}

RejectionMessage == <<"Cannot", "remove", "system", "networks", "(bridge,", "host,", "none)">>

\* NetworkRow.handleRemove (the row with confirm()) and NetworkCard.handleRemove,
\* up to the await.  The button that calls the handler is rendered disabled
\* for a system network; the handler and its own test are modelled for every
\* rendered network.
NetworkHandleRemove(origin, n, answer) ==
  /\ activePage = "networks"
  /\ Uncovered
  /\ n \in networkRows(networkList)
  /\ rowIdle(n.id)
  /\ IF rejectsNetwork(n.name)
     THEN /\ ~answer
          /\ Outputs(<<>>, alert(n.id, RejectionMessage), <<>>)
          /\ UNCHANGED pending
     ELSE IF ~answer
     THEN /\ Outputs(<<>>, confirm(n.id, FALSE), <<>>)
          /\ UNCHANGED pending
     ELSE /\ CanInvoke
          /\ pending' = pending \cup {inflight(origin, "remove_network", n.id)}
          /\ Outputs(<<call(origin, "remove_network", n.id)>>, confirm(n.id, TRUE), <<>>)
  /\ UNCHANGED <<listVars, rowDeleteModal, fanouts, containerDetail>>
  /\ UNCHANGED viewVars

NetworkRowHandleRemove(n, answer) == NetworkHandleRemove("NetworkRow.handleRemove", n, answer)

NetworkCardHandleRemove(n, answer) == NetworkHandleRemove("NetworkCard.handleRemove", n, answer)

\* After the await: onUpdate, or the catch (the row alerts, the card only logs).
NetworkHandleRemoveSettled(p, out) ==
  /\ p \in pending
  /\ CanReload(out.ok /\ p.mounted)
  /\ p.origin \in {"NetworkRow.handleRemove", "NetworkCard.handleRemove"}
  /\ pending' = pending \ {p}
  /\ response' = settled(p, out)
  /\ prompt' = IF ~out.ok /\ p.origin = "NetworkRow.handleRemove"
               THEN alert(p.arg, <<"Failed", "to", "remove", "network:">> \o out.error)
               ELSE NoPrompt
  /\ invoked' = IF out.ok THEN <<listCall("networks")>> ELSE <<>>
  /\ IF out.ok /\ p.mounted
     THEN /\ networkList' = loadNetworksStart(networkList)
          /\ listCalls' = listCalls + 1
     ELSE UNCHANGED <<networkList, listCalls>>
  /\ UNCHANGED <<activePage, containerList, volumeList, imageList, rowDeleteModal,
                 fanouts, containerDetail>>
  /\ UNCHANGED viewVars

\* NetworkRow.handleDeleteClick, with NetworkList.handleDeleteRequest.
NetworkRowHandleDeleteClick(n) ==
  /\ activePage = "networks"
  /\ Uncovered
  /\ n \in networkRows(networkList)
  /\ IF rejectsNetwork(n.name)
     THEN /\ Outputs(<<>>, alert(n.id, RejectionMessage), <<>>)
          /\ UNCHANGED networkList
     ELSE /\ networkList' = [networkList EXCEPT !.networkToDelete = <<n>>,
                                                !.showDeleteModal = TRUE]
          /\ Local
  /\ UNCHANGED <<activePage, containerList, volumeList, imageList, listCalls, actionVars>>
  /\ UNCHANGED viewVars

\* displayMessage of NetworkList.handleDeleteConfirm's catch.
networkDisplayMessage(errorMessage) ==
  <<"Failed", "to", "remove", "network:">> \o errorMessage \o
  (IF \/ includes(errorMessage, <<"in", "use">>)
      \/ includes(errorMessage, <<"has", "active", "endpoints">>)
   THEN <<"Tip:", "disconnect", "containers">>
   ELSE IF \/ includes(errorMessage, <<"permission", "denied">>)
           \/ includes(errorMessage, <<"access", "denied">>)
   THEN <<"Tip:", "permission">>
   ELSE IF includes(errorMessage, <<"connect">>) \/ includes(errorMessage, <<"socket">>)
   THEN <<"Tip:", "Docker", "Desktop">>
   ELSE <<>>)

\* 'Delete forever' of DeleteNetworkModal: handleDeleteConfirm up to its await.
NetworkListHandleDeleteConfirm ==
  /\ activePage = "networks"
  /\ networkList.showDeleteModal
  /\ ~networkList.isDeleting
  /\ networkList.networkToDelete # <<>>
  /\ CanInvoke
  /\ networkList' = [networkList EXCEPT !.isDeleting = TRUE]
  /\ pending' = pending \cup
       {inflight("NetworkList.handleDeleteConfirm", "remove_network",
                 networkList.networkToDelete[1].id)}
  /\ Outputs(<<call("NetworkList.handleDeleteConfirm", "remove_network",
                    networkList.networkToDelete[1].id)>>,
             modalAnswer(networkList.networkToDelete[1].id, TRUE), <<>>)
  /\ UNCHANGED <<activePage, containerList, volumeList, imageList, listCalls,
                 rowDeleteModal, fanouts, containerDetail>>
  /\ UNCHANGED viewVars

\* Cancel, the close button, the backdrop or Escape of DeleteNetworkModal.
NetworkListHandleDeleteCancel ==
  /\ activePage = "networks"
  /\ networkList.showDeleteModal
  /\ networkList' = [networkList EXCEPT !.showDeleteModal = FALSE, !.networkToDelete = <<>>]
  /\ Outputs(<<>>,
             modalAnswer(IF networkList.networkToDelete = <<>> THEN <<>>
                         ELSE networkList.networkToDelete[1].id, FALSE),
             <<>>)
  /\ UNCHANGED <<activePage, containerList, volumeList, imageList, listCalls, actionVars>>
  /\ UNCHANGED viewVars

\* handleDeleteConfirm after the await.  Its finally follows the awaited
\* loadNetworks, so isDeleting falls before the table is rendered again.
NetworkListDeleteSettled(p, out) ==
  /\ p \in pending
  /\ CanReload(out.ok /\ p.mounted)
  /\ p.origin = "NetworkList.handleDeleteConfirm"
  /\ pending' = pending \ {p}
  /\ response' = settled(p, out)
  /\ prompt' = alert(p.arg, IF out.ok THEN <<"removed", "successfully!">>
                            ELSE networkDisplayMessage(out.error))
  /\ invoked' = IF out.ok THEN <<listCall("networks")>> ELSE <<>>
  /\ IF ~p.mounted
     THEN UNCHANGED <<networkList, listCalls>>
     ELSE IF out.ok
     THEN /\ networkList' = [loadNetworksStart(networkList) EXCEPT
                               !.showDeleteModal = FALSE,
                               !.networkToDelete = <<>>,
                               !.isDeleting = FALSE]
          /\ listCalls' = listCalls + 1
     ELSE /\ networkList' = [networkList EXCEPT !.isDeleting = FALSE]
          /\ UNCHANGED listCalls
  /\ UNCHANGED <<activePage, containerList, volumeList, imageList, rowDeleteModal,
                 fanouts, containerDetail>>
  /\ UNCHANGED viewVars

\* ----------------------------------------------------------------- ImageRow
ImageRowHandleRemove(i, answer) ==
  /\ activePage = "images"
  /\ i \in imageRows(imageList)
  /\ rowIdle(i.id)
  /\ IF ~answer
     THEN /\ Outputs(<<>>, confirm(i.id, FALSE), <<>>)
          /\ UNCHANGED pending
     ELSE /\ CanInvoke
          /\ pending' = pending \cup {inflight("ImageRow.handleRemove", "remove_image", i.id)}
          /\ Outputs(<<call("ImageRow.handleRemove", "remove_image", i.id)>>,
                     confirm(i.id, TRUE), <<>>)
  /\ UNCHANGED <<listVars, rowDeleteModal, fanouts, containerDetail>>
  /\ UNCHANGED viewVars

\* After the await: onUpdate, or the catch, which only logs.
ImageRowSettled(p, out) ==
  /\ p \in pending
  /\ CanReload(out.ok /\ p.mounted)
  /\ p.origin = "ImageRow.handleRemove"
  /\ pending' = pending \ {p}
  /\ Outputs(IF out.ok THEN <<listCall("images")>> ELSE <<>>, NoPrompt, settled(p, out))
  /\ IF out.ok /\ p.mounted
     THEN /\ imageList' = loadImagesStart(imageList)
          /\ listCalls' = listCalls + 1
     ELSE UNCHANGED <<imageList, listCalls>>
  /\ UNCHANGED <<activePage, containerList, volumeList, networkList, rowDeleteModal,
                 fanouts, containerDetail>>
  /\ UNCHANGED viewVars

\* ---------------------------------------------------------- ContainerDetail
\* The detail view is mounted for a loaded container; its mount effect runs
\* loadContainerDetails.
ShowContainerDetail(c) ==
  /\ activePage = "containers"
  /\ Uncovered
  /\ containerDetail = <<>>
  /\ c \in containerRows(containerList)
  /\ CanInvoke
  /\ containerDetail' = <<[containerId |-> c.id, container |-> <<>>,
                           loading |-> TRUE, error |-> null,
                           isStreaming |-> FALSE, autoScroll |-> TRUE]>>
  /\ pending' = pending \cup
       {inflight("ContainerDetail.loadContainerDetails", "list_containers", c.id)}
  /\ Outputs(<<call("ContainerDetail.loadContainerDetails", "list_containers", c.id)>>,
             NoPrompt, <<>>)
  /\ events' = [events EXCEPT !.effects = @ \cup setupListeners(c.id)]
  /\ UNCHANGED <<listVars, rowDeleteModal, fanouts, terminal>>

\* onBack unmounts the detail view.
ContainerDetailOnBack ==
  /\ containerDetail # <<>>
  /\ containerDetail' = <<>>
  /\ pending' = {IF p.arg = containerDetail[1].containerId
                    /\ p.origin \in {"ContainerDetail.loadContainerDetails",
                                     "ContainerDetail.handleContainerAction"}
                 THEN [p EXCEPT !.mounted = FALSE] ELSE p : p \in pending}
  /\ events' = cleanup(events)
  /\ Outputs(logEffectCleanup(containerDetail), NoPrompt, <<>>)
  /\ UNCHANGED <<listVars, rowDeleteModal, fanouts, terminal>>

\* A listen() call of a listener effect resolves: the handler is subscribed
\* and its unlisten function is stored in the effect's closure, and the
\* effect calls its next listen().  After the effect's cleanup nothing calls
\* that unlisten function any more.
ListenResolved(e) ==
  /\ e \in events.effects
  /\ e.registered < Len(EffectEvents[e.kind])
  /\ events' =
       [effects |-> (events.effects \ {e}) \cup
                    (IF e.cleaned /\ e.registered + 1 = Len(EffectEvents[e.kind])
                     THEN {}
                     ELSE {[e EXCEPT !.registered = @ + 1]}),
        handlers |-> events.handlers \cup
                     {[event |-> EffectEvents[e.kind][e.registered + 1],
                       containerId |-> e.containerId, leaked |-> e.cleaned]}]
  /\ Local
  /\ UNCHANGED <<listVars, actionVars, terminal>>

\* The entity of a list with the given id, as a sequence of at most one.
find(list, id) == filter(list, {c \in Range(list) : c.id = id})

\* loadContainerDetails and the loadLogs it awaits, one bridge response at a
\* time: list_containers, get_container_logs, start_log_stream.
ContainerDetailLoadSettled(p, list, out) ==
  /\ p \in pending
  /\ p.origin = "ContainerDetail.loadContainerDetails"
  /\ (p.cmd = "list_containers" /\ out.ok) \/ list = <<>>
  /\ response' = settled(p, out)
  /\ prompt' = NoPrompt
  /\ LET found == out.ok /\ find(list, p.arg) # <<>>
         next == CASE p.cmd = "list_containers" /\ found -> <<"get_container_logs">>
                   [] p.cmd = "get_container_logs" /\ out.ok -> <<"start_log_stream">>
                   [] OTHER -> <<>>
         d == containerDetail[1]
     IN /\ pending' = (pending \ {p}) \cup
                      {[p EXCEPT !.cmd = next[i]] : i \in 1..Len(next)}
        /\ invoked' = [i \in 1..Len(next) |-> call(p.origin, next[i], p.arg)]
        /\ containerDetail' =
             IF ~p.mounted THEN containerDetail
             ELSE IF p.cmd = "list_containers"
             THEN IF ~out.ok
                  THEN <<[d EXCEPT !.error = "list error", !.loading = FALSE]>>
                  ELSE IF ~found
                  THEN <<[d EXCEPT !.error = "Container not found", !.loading = FALSE]>>
                  ELSE <<[d EXCEPT !.container = find(list, p.arg)]>>
             ELSE IF next = <<>>
             THEN <<[d EXCEPT !.loading = FALSE,
                              !.isStreaming = @ \/ (p.cmd = "start_log_stream" /\ out.ok)]>>
             ELSE containerDetail
        /\ events' = IF /\ p.mounted
                        /\ p.cmd = "start_log_stream" /\ out.ok
                        /\ ~d.isStreaming
                     THEN rerunLogEffect(events, d.containerId)
                     ELSE events
  /\ UNCHANGED <<listVars, rowDeleteModal, fanouts, terminal>>

\* ContainerDetail.handleContainerAction up to its await; the header buttons
\* call it with restart, remove and, by the free-text status, stop or start.
ContainerDetailHandleContainerAction(action) ==
  /\ containerDetail # <<>>
  /\ ~containerDetail[1].loading
  /\ containerDetail[1].error = null
  /\ containerDetail[1].container # <<>>
  /\ action \in {"start", "stop", "restart", "remove"}
  /\ CanInvoke
  /\ pending' = pending \cup
       {inflight("ContainerDetail.handleContainerAction", containerCommand(action),
                 containerDetail[1].container[1].id)}
  /\ Outputs(<<call("ContainerDetail.handleContainerAction", containerCommand(action),
                    containerDetail[1].container[1].id)>>, NoPrompt, <<>>)
  /\ UNCHANGED <<listVars, rowDeleteModal, fanouts, containerDetail>>
  /\ UNCHANGED viewVars

\* After the await: loadContainerDetails again, or the catch with its alert.
ContainerDetailActionSettled(p, out) ==
  /\ p \in pending
  /\ p.origin = "ContainerDetail.handleContainerAction"
  /\ response' = settled(p, out)
  /\ prompt' = IF out.ok THEN NoPrompt
               ELSE alert(p.arg, <<"Failed", "to", actionOf(p.cmd), "container:">> \o out.error)
  /\ invoked' = IF out.ok
                THEN <<call("ContainerDetail.loadContainerDetails", "list_containers", p.arg)>>
                ELSE <<>>
  /\ pending' = (pending \ {p}) \cup
       (IF out.ok
        THEN {[p EXCEPT !.origin = "ContainerDetail.loadContainerDetails",
                        !.cmd = "list_containers"]}
        ELSE {})
  /\ containerDetail' =
       IF out.ok /\ p.mounted
       THEN <<[containerDetail[1] EXCEPT !.loading = TRUE, !.error = null]>>
       ELSE containerDetail
  /\ UNCHANGED <<listVars, rowDeleteModal, fanouts>>
  /\ UNCHANGED viewVars

\* The logs toolbar is rendered once the container is loaded.
logsToolbarShown ==
  /\ activePage = "containers"
  /\ containerDetail # <<>>
  /\ ~containerDetail[1].loading
  /\ containerDetail[1].error = null
  /\ containerDetail[1].container # <<>>

\* The Auto button: setAutoScroll(!autoScroll).  autoScroll is a dependency
\* of the log listener effect, which therefore runs again.
SetAutoScroll ==
  /\ logsToolbarShown
  /\ LET d == containerDetail[1]
         stop == logEffectCleanup(containerDetail)
     IN /\ containerDetail' = <<[d EXCEPT !.autoScroll = ~@]>>
        /\ events' = rerunLogEffect(events, d.containerId)
        /\ pending' = pending \cup
             {inflight(stop[i].origin, stop[i].cmd, stop[i].arg) : i \in 1..Len(stop)}
        /\ Outputs(stop, NoPrompt, <<>>)
  /\ UNCHANGED <<listVars, rowDeleteModal, fanouts, terminal>>

\* The stream button: onClick={isStreaming ? stopLogStream : startLogStream},
\* up to the await.
ToggleLogStream ==
  /\ logsToolbarShown
  /\ LET d == containerDetail[1]
         c == IF d.isStreaming
              THEN call("ContainerDetail.stopLogStream", "stop_log_stream", d.containerId)
              ELSE call("ContainerDetail.startLogStream", "start_log_stream", d.containerId)
     IN /\ pending' = pending \cup {inflight(c.origin, c.cmd, c.arg)}
        /\ Outputs(<<c>>, NoPrompt, <<>>)
  /\ UNCHANGED <<listVars, rowDeleteModal, fanouts, containerDetail>>
  /\ UNCHANGED viewVars

\* startLogStream and stopLogStream after the await: setIsStreaming on
\* success, nothing in the catch.  A change of isStreaming runs the log
\* listener effect again, with the cleanup of the render before the change.
LogStreamSettled(p, out) ==
  /\ p \in pending
  /\ p.origin \in {"ContainerDetail.startLogStream", "ContainerDetail.stopLogStream"}
  /\ response' = settled(p, out)
  /\ prompt' = NoPrompt
  /\ LET value == p.cmd = "start_log_stream"
         changes == /\ out.ok
                    /\ p.mounted
                    /\ containerDetail # <<>>
                    /\ containerDetail[1].isStreaming # value
         stop == IF changes THEN logEffectCleanup(containerDetail) ELSE <<>>
     IN /\ containerDetail' =
             IF changes THEN <<[containerDetail[1] EXCEPT !.isStreaming = value]>>
             ELSE containerDetail
        /\ events' = IF changes THEN rerunLogEffect(events, containerDetail[1].containerId)
                     ELSE events
        /\ pending' = (pending \ {p}) \cup
             {inflight(stop[i].origin, stop[i].cmd, stop[i].arg) : i \in 1..Len(stop)}
        /\ invoked' = stop
  /\ UNCHANGED <<listVars, rowDeleteModal, fanouts, terminal>>

\* ------------------------------------------------------ handleProjectAction
\* Promise.all over promises that each carry their own catch: it resolves once
\* no member call is outstanding, whatever their outcomes.
allSettledFailFast(outstanding, out) == outstanding = {} /\ out.ok

allSettled(outstanding, out) == outstanding = {}

\* The start, stop and restart buttons of a rendered project header: one call
\* per container of the project, all issued before the await.
HandleProjectAction(projectName, action) ==
  /\ activePage = "containers"
  /\ Uncovered
  /\ renderBranch(containerList) = "table"
  /\ \E p \in Range(filteredProjects(containerList)) : p.name = projectName
  /\ CanInvoke
  /\ LET project == CHOOSE p \in Range(containerList.projects) : p.name = projectName
     IN /\ fanouts' = Append(fanouts,
                             [projectName |-> projectName, action |-> action,
                              outstanding |-> {c.id : c \in Range(project.containers)},
                              mounted |-> TRUE])
        /\ Outputs([i \in 1..Len(project.containers) |->
                      call("handleProjectAction", containerCommand(action),
                           project.containers[i].id)],
                   NoPrompt, <<>>)
  /\ UNCHANGED <<listVars, rowDeleteModal, pending, containerDetail>>
  /\ UNCHANGED viewVars

\* One member call resolves or rejects (its catch logs); when Promise.all
\* resolves, loadContainers runs.
ProjectMemberSettled(k, id, out) ==
  /\ k \in 1..Len(fanouts)
  /\ id \in fanouts[k].outstanding
  /\ CanReload(fanouts[k].mounted /\ fanouts[k].outstanding = {id})
  /\ response' = settled(call("handleProjectAction", containerCommand(fanouts[k].action), id), out)
  /\ prompt' = NoPrompt
  /\ IF allSettled(fanouts[k].outstanding \ {id}, out)
     THEN /\ fanouts' = SubSeq(fanouts, 1, k - 1) \o SubSeq(fanouts, k + 1, Len(fanouts))
          /\ invoked' = <<listCall("containers")>>
          /\ IF fanouts[k].mounted
             THEN /\ containerList' = loadContainersStart(containerList)
                  /\ listCalls' = listCalls + 1
                  /\ rowDeleteModal' = <<>>
             ELSE UNCHANGED <<containerList, listCalls, rowDeleteModal>>
     ELSE /\ fanouts' = [fanouts EXCEPT ![k].outstanding = @ \ {id}]
          /\ invoked' = <<>>
          /\ UNCHANGED <<containerList, listCalls, rowDeleteModal>>
  /\ UNCHANGED <<activePage, volumeList, networkList, imageList, pending, containerDetail>>
  /\ UNCHANGED viewVars

Actions == {"start", "stop", "restart", "remove"}

\* Removal and the other row, card and detail actions on every page.
RemovalNext ==
  \/ \E key \in Pages : handleNavigation(key)
  \/ \E list \in ContainerLists : ListContainersResolved(list)
  \/ \E list \in VolumeLists : ListVolumesResolved(list)
  \/ \E list \in NetworkLists : ListNetworksResolved(list)
  \/ \E list \in ImageLists : ListImagesResolved(list)
  \/ \E c \in ContainerPool, action \in Actions : ContainerRowHandleAction(c, action)
  \/ DeleteModalOnClose
  \/ ContainerRowHandleRemove
  \/ \E p \in pending, out \in Outcomes : ContainerRowSettled(p, out)
  \/ \E v \in VolumePool : VolumeRowHandleDeleteClick(v)
  \/ VolumeRowHandleRemove
  \/ \E p \in pending, out \in Outcomes : VolumeRowSettled(p, out)
  \/ \E n \in NetworkPool, answer \in BOOLEAN : NetworkRowHandleRemove(n, answer)
  \/ \E n \in NetworkPool, answer \in BOOLEAN : NetworkCardHandleRemove(n, answer)
  \/ \E p \in pending, out \in Outcomes : NetworkHandleRemoveSettled(p, out)
  \/ \E n \in NetworkPool : NetworkRowHandleDeleteClick(n)
  \/ NetworkListHandleDeleteConfirm
  \/ NetworkListHandleDeleteCancel
  \/ \E p \in pending, out \in Outcomes : NetworkListDeleteSettled(p, out)
  \/ \E i \in ImagePool, answer \in BOOLEAN : ImageRowHandleRemove(i, answer)
  \/ \E p \in pending, out \in Outcomes : ImageRowSettled(p, out)
  \/ \E c \in ContainerPool : ShowContainerDetail(c)
  \/ ContainerDetailOnBack
  \/ \E p \in pending, list \in ContainerLists, out \in Outcomes :
       ContainerDetailLoadSettled(p, list, out)
  \/ \E action \in Actions : ContainerDetailHandleContainerAction(action)
  \/ \E p \in pending, out \in Outcomes : ContainerDetailActionSettled(p, out)
  \/ \E projectName \in ProjectNames, action \in Actions \ {"remove"} :
       HandleProjectAction(projectName, action)
  \/ \E k \in 1..MaxPending, id \in {c.id : c \in ContainerPool}, out \in Outcomes :
       ProjectMemberSettled(k, id, out)

SpecRemoval == Init /\ [][RemovalNext]_vars

\* The networks page with its three removal paths.
NetworksNext ==
  \/ \E key \in {"containers", "networks"} : handleNavigation(key)
  \/ \E list \in ContainerLists : ListContainersResolved(list)
  \/ RefreshNetworks
  \/ \E list \in NetworkLists : ListNetworksResolved(list)
  \/ \E err \in ListErrors : ListNetworksRejected(err)
  \/ \E n \in NetworkPool, answer \in BOOLEAN : NetworkRowHandleRemove(n, answer)
  \/ \E n \in NetworkPool, answer \in BOOLEAN : NetworkCardHandleRemove(n, answer)
  \/ \E p \in pending, out \in Outcomes : NetworkHandleRemoveSettled(p, out)
  \/ \E n \in NetworkPool : NetworkRowHandleDeleteClick(n)
  \/ NetworkListHandleDeleteConfirm
  \/ NetworkListHandleDeleteCancel
  \/ \E p \in pending, out \in Outcomes : NetworkListDeleteSettled(p, out)

SpecNetworks == Init /\ [][NetworksNext]_vars

\* The network list with its selection checkboxes, in the current and in the
\* earlier component.
NetworkSelectionNext ==
  \/ \E key \in {"containers", "networks"} : handleNavigation(key)
  \/ \E list \in ContainerLists : ListContainersResolved(list)
  \/ RefreshNetworks
  \/ \E list \in NetworkLists : ListNetworksResolved(list)
  \/ \E err \in ListErrors : ListNetworksRejected(err)
  \/ \E term \in SearchTerms : SetNetworkSearchTerm(term)
  \/ \E n \in NetworkPool : ToggleNetworkSelection(n)
  \/ NetworkHeaderOnChange
  \/ \E n \in NetworkPool : EarlierToggleNetworkSelection(n)
  \/ EarlierNetworkHeaderOnChange

SpecNetworkSelection == Init /\ [][NetworkSelectionNext]_vars

\* C11: the selection set of the network list never holds the id of a network
\* named bridge, host or none.
C11_NoReservedNetworkSelected ==
  \A id \in networkList.selectedNetworks :
    \A n \in NetworkPool : n.id = id => n.name \notin {bridge, host, none}

\* The containers page with its project-group actions.
ProjectNext ==
  \/ \E key \in {"containers", "images"} : handleNavigation(key)
  \/ \E list \in ImageLists : ListImagesResolved(list)
  \/ RefreshContainers
  \/ \E list \in ContainerLists : ListContainersResolved(list)
  \/ \E err \in ListErrors : ListContainersRejected(err)
  \/ \E projectName \in ProjectNames : ToggleProjectExpansion(projectName)
  \/ \E projectName \in ProjectNames, action \in Actions \ {"remove"} :
       HandleProjectAction(projectName, action)
  \/ \E k \in 1..MaxPending, id \in {c.id : c \in ContainerPool}, out \in Outcomes :
       ProjectMemberSettled(k, id, out)

SpecProject == Init /\ [][ProjectNext]_vars

\* ------------------------------------------- column selector of the tables
\* The cells of the table head, the cells of each row, and the checkboxes of
\* the column selector dropdown, as column ids.  ContainerList renders Name
\* and Image as fixed cells.
containerTableColumns(st) ==
  [header |-> <<"name", "image">> \o columnIds(st.columns, {"name", "image"}, TRUE),
   row |-> <<"name", "image">> \o columnIds(st.columns, {"name", "image"}, TRUE),
   selector |-> columnIds(st.columns, {"name", "image"}, FALSE)]

\* VolumeList hands all columns to ResizableTableHeader and to VolumeRow,
\* which render the visible ones.
volumeTableColumns(st) ==
  [header |-> columnIds(st.columns, {}, TRUE),
   row |-> columnIds(st.columns, {}, TRUE),
   selector |-> columnIds(st.columns, {"name"}, FALSE)]

\* NetworkList renders Name as a fixed cell.
networkTableColumns(st) ==
  [header |-> <<"name">> \o columnIds(st.columns, {"name"}, TRUE),
   row |-> <<"name">> \o columnIds(st.columns, {"name"}, TRUE),
   selector |-> columnIds(st.columns, {"name"}, FALSE)]

ColumnPages == {"containers", "volumes", "networks"}

\* The state of the list view that renderMainContent mounts for the page.
pageState(page) ==
  CASE page = "containers" -> containerList
    [] page = "volumes" -> volumeList
    [] page = "networks" -> networkList

tableColumns(page) ==
  CASE page = "containers" -> containerTableColumns(containerList)
    [] page = "volumes" -> volumeTableColumns(volumeList)
    [] page = "networks" -> networkTableColumns(networkList)

\* A state setter of the mounted list view, in a step of pure local state.
setPageState(page, st) ==
  /\ activePage = page
  /\ Uncovered
  /\ renderBranch(pageState(page)) = "table"
  /\ containerList' = IF page = "containers" THEN st ELSE containerList
  /\ volumeList' = IF page = "volumes" THEN st ELSE volumeList
  /\ networkList' = IF page = "networks" THEN st ELSE networkList
  /\ Local
  /\ UNCHANGED <<activePage, imageList, listCalls, actionVars>>
  /\ UNCHANGED viewVars

\* The settings button, and the mousedown outside the dropdown that closes it.
SetShowColumnSelector(page) ==
  /\ page \in ColumnPages
  /\ setPageState(page, [pageState(page) EXCEPT !.showColumnSelector = ~@])

\* A checkbox of the dropdown.
ToggleColumnVisibility(page, columnId) ==
  /\ pageState(page).showColumnSelector
  /\ columnId \in Range(tableColumns(page).selector)
  /\ setPageState(page, [pageState(page) EXCEPT
                           !.columns = toggleColumnVisibility(@, columnId)])

\* The "Show all" button of the dropdown.
ShowAllColumns(page) ==
  /\ pageState(page).showColumnSelector
  /\ setPageState(page, [pageState(page) EXCEPT !.columns = showAllColumns(@)])

\* The "Hide all" button of the dropdown.
HideAllColumns(page) ==
  /\ pageState(page).showColumnSelector
  /\ setPageState(page, [pageState(page) EXCEPT !.columns = hideAllColumns(@)])

ColumnsNext ==
  \/ \E key \in Pages : handleNavigation(key)
  \/ \E list \in ContainerLists : ListContainersResolved(list)
  \/ \E list \in VolumeLists : ListVolumesResolved(list)
  \/ \E list \in NetworkLists : ListNetworksResolved(list)
  \/ \E page \in ColumnPages : SetShowColumnSelector(page)
  \/ \E page \in ColumnPages :
       \E i \in 1..Len(pageState(page).columns) :
         ToggleColumnVisibility(page, pageState(page).columns[i].id)
  \/ \E page \in ColumnPages : ShowAllColumns(page)
  \/ \E page \in ColumnPages : HideAllColumns(page)

SpecColumns == Init /\ [][ColumnsNext]_vars

\* ---------------------------------------------------------------- Terminal
\* String.prototype.startsWith, slice(start), trim and split(/\s+/); the
\* only whitespace typed is the blank.
startsWith(s, prefix) ==
  Len(s) >= Len(prefix) /\ SubSeq(s, 1, Len(prefix)) = prefix

slice(s, start) == SubSeq(s, start + 1, Len(s))

RECURSIVE trim(_)
trim(s) ==
  IF s = <<>> THEN <<>>
  ELSE IF Head(s) = " " THEN trim(Tail(s))
  ELSE IF s[Len(s)] = " " THEN trim(SubSeq(s, 1, Len(s) - 1))
  ELSE s

RECURSIVE split(_)
split(s) ==
  IF \A i \in 1..Len(s) : s[i] # " " THEN <<s>>
  ELSE LET k == CHOOSE i \in 1..Len(s) :
                  s[i] = " " /\ \A j \in 1..(i - 1) : s[j] # " "
       IN <<SubSeq(s, 1, k - 1)>> \o split(trim(SubSeq(s, k + 1, Len(s))))

\* What is typed into the input: cd without and with a path, pwd, clear, a
\* general command, a docker command, a blank.
TerminalCommands ==
  {<<"c", "d">>, <<"c", "d", " ">>, <<"c", "d", " ", "x">>, <<"p", "w", "d">>,
   <<"c", "l", "e", "a", "r">>, <<"l", "s">>, <<" ">>,
   <<"d", "o", "c", "k", "e", "r", " ", "p", "s", " ", " ", "a">>}

\* createNewSession; the name "Terminal n" is the number n.
createNewSession(directory, sessionList) ==
  [id |-> terminal.sessionCount + 1,
   name |-> <<"Terminal", Len(sessionList) + 1>>,
   currentDirectory |-> IF directory = "" THEN "/" ELSE directory,
   entries |-> <<>>, commandHistory |-> <<>>, historyIndex |-> -1]

renumberSessions(sessionList) ==
  [i \in 1..Len(sessionList) |->
     [sessionList[i] EXCEPT !.name = IF Head(@) = "Terminal" THEN <<"Terminal", i>> ELSE @]]

\* closeSession: the sessions it leaves and the active session id it sets.
\* closeSessionFirstRemaining is closeSession with the first remaining session
\* always chosen as the new active one.
closeSessionFirstRemaining(prev, activeSessionId, sessionId) ==
  IF Len(prev) <= 1 THEN [sessions |-> prev, activeSessionId |-> activeSessionId]
  ELSE LET renumbered == renumberSessions(
                           filter(prev, {x \in Range(prev) : x.id # sessionId}))
       IN [sessions |-> renumbered,
           activeSessionId |-> IF sessionId = activeSessionId
                               THEN renumbered[1].id
                               ELSE activeSessionId]
closeSession(prev, activeSessionId, sessionId) ==
  IF Len(prev) <= 1 THEN [sessions |-> prev, activeSessionId |-> activeSessionId]
  ELSE LET sessionIndex == CHOOSE i \in 1..Len(prev) : prev[i].id = sessionId
           renumbered == renumberSessions(
                           filter(prev, {x \in Range(prev) : x.id # sessionId}))
           targetIndex == IF sessionIndex > 1 THEN sessionIndex - 1 ELSE 1
       IN [sessions |-> renumbered,
           activeSessionId |-> IF sessionId = activeSessionId
                               THEN renumbered[targetIndex].id
                               ELSE activeSessionId]

\* appendHistory with the oldest commands kept: slice(0, 100).
appendHistoryKeepOldest(commandHistory, command) ==
  LET history == Append(commandHistory, command)
  IN SubSeq(history, 1, IF Len(history) > HistoryLimit THEN HistoryLimit ELSE Len(history))
\* [...session.commandHistory, command].slice(-100)
appendHistory(commandHistory, command) ==
  LET history == Append(commandHistory, command)
  IN SubSeq(history,
            IF Len(history) > HistoryLimit THEN Len(history) - HistoryLimit + 1 ELSE 1,
            Len(history))

\* The setSessions update that writes the output of an entry of a session.
setEntryOutput(prev, sessionId, entryId, output) ==
  [i \in 1..Len(prev) |->
     IF prev[i].id # sessionId THEN prev[i]
     ELSE LET es == prev[i].entries
          IN [prev[i] EXCEPT !.entries =
                [j \in 1..Len(es) |->
                   IF es[j].id = entryId
                   THEN [es[j] EXCEPT !.output = output, !.isExecuting = FALSE]
                   ELSE es[j]]]]

\* get_home_directory resolves or rejects: initializeTerminal installs the
\* first session (in the fallback directory after a failure), addNewSession
\* appends one (none after a failure).
GetHomeDirectorySettled(x, out) ==
  /\ x \in terminal.calls
  /\ x.cmd = "get_home_directory"
  /\ LET directory == IF out.ok THEN "/home" ELSE "/"
         initial == createNewSession(directory, <<>>)
         added == createNewSession(directory, terminal.sessions)
     IN terminal' =
          IF ~x.mounted \/ (x.origin = "addNewSession" /\ ~out.ok)
          THEN [terminal EXCEPT !.calls = @ \ {x}]
          ELSE IF x.origin = "initializeTerminal"
          THEN [terminal EXCEPT !.calls = @ \ {x},
                                !.sessions = <<initial>>,
                                !.activeSessionId = initial.id,
                                !.sessionCount = @ + 1]
          ELSE [terminal EXCEPT !.calls = @ \ {x},
                                !.sessions = renumberSessions(Append(@, added)),
                                !.activeSessionId = added.id,
                                !.sessionCount = @ + 1]
  /\ Outputs(<<>>, NoPrompt, settled(x, out))
  /\ UNCHANGED <<listVars, actionVars, events>>

\* The "+" button: addNewSession up to its await.
AddNewSession ==
  /\ activePage = "terminal"
  /\ terminal.sessionCount
       + Cardinality({x \in terminal.calls : x.mounted /\ x.cmd = "get_home_directory"})
       < MaxSessions
  /\ terminal' = [terminal EXCEPT !.calls =
       @ \cup {terminalCall("addNewSession", "get_home_directory", <<>>, 0,
                            Cardinality(@) + 1)}]
  /\ Outputs(<<call("addNewSession", "get_home_directory", <<>>)>>, NoPrompt, <<>>)
  /\ UNCHANGED <<listVars, actionVars, events>>

\* The close button of a tab.  CloseSessionUnguarded removes the session
\* whatever the number of sessions and leaves activeSessionId alone.
CloseSessionUnguarded(sessionId) ==
  /\ activePage = "terminal"
  /\ \E i \in 1..Len(terminal.sessions) : terminal.sessions[i].id = sessionId
  /\ terminal' = [terminal EXCEPT !.sessions =
       renumberSessions(filter(@, {x \in Range(@) : x.id # sessionId}))]
  /\ Local
  /\ UNCHANGED <<listVars, actionVars, events>>
CloseSession(sessionId) ==
  /\ activePage = "terminal"
  /\ \E i \in 1..Len(terminal.sessions) : terminal.sessions[i].id = sessionId
  /\ LET closed == closeSession(terminal.sessions, terminal.activeSessionId, sessionId)
     IN terminal' = [terminal EXCEPT !.sessions = closed.sessions,
                                     !.activeSessionId = closed.activeSessionId]
  /\ Local
  /\ UNCHANGED <<listVars, actionVars, events>>

\* A click on a tab.
SetActiveSessionId(sessionId) ==
  /\ activePage = "terminal"
  /\ \E i \in 1..Len(terminal.sessions) : terminal.sessions[i].id = sessionId
  /\ sessionId # terminal.activeSessionId
  /\ terminal' = [terminal EXCEPT !.activeSessionId = sessionId]
  /\ Local
  /\ UNCHANGED <<listVars, actionVars, events>>

\* A tab is renamed: double click, the new name typed, Enter or blur
\* (startRenameTab, finishRenameTab).
FinishRenameTab(sessionId, editingTabName) ==
  /\ activePage = "terminal"
  /\ \E i \in 1..Len(terminal.sessions) :
       terminal.sessions[i].id = sessionId /\ terminal.sessions[i].name # editingTabName
  /\ terminal' = [terminal EXCEPT !.sessions =
       [i \in 1..Len(@) |-> IF @[i].id = sessionId
                             THEN [@[i] EXCEPT !.name = editingTabName] ELSE @[i]]]
  /\ Local
  /\ UNCHANGED <<listVars, actionVars, events>>

\* onChange of the input, which is disabled while a command executes.
SetCurrentCommand(value) ==
  /\ activePage = "terminal"
  /\ ~terminal.isExecuting
  /\ value # terminal.currentCommand
  /\ terminal' = [terminal EXCEPT !.currentCommand = value]
  /\ Local
  /\ UNCHANGED <<listVars, actionVars, events>>

\* Enter in the input: executeCommand(currentCommand) up to its first await,
\* or to its end for the commands answered locally, then setCurrentCommand('').
ExecuteCommand ==
  /\ activePage = "terminal"
  /\ ~terminal.isExecuting
  /\ trim(terminal.currentCommand) # <<>>
  /\ \E i \in 1..Len(terminal.sessions) :
       terminal.sessions[i].id = terminal.activeSessionId
  /\ LET command == terminal.currentCommand
         active == terminal.activeSessionId
         activeSession == CHOOSE x \in Range(terminal.sessions) : x.id = active
         entryId == terminal.entryCount + 1
         newEntry == [id |-> entryId, command |-> command,
                      output |-> [stdout |-> <<>>, stderr |-> <<>>, success |-> FALSE],
                      isExecuting |-> TRUE]
         appended ==
           [i \in 1..Len(terminal.sessions) |->
              IF terminal.sessions[i].id # active THEN terminal.sessions[i]
              ELSE [terminal.sessions[i] EXCEPT
                      !.entries = Append(@, newEntry),
                      !.commandHistory = appendHistory(@, command),
                      !.historyIndex = -1]]
         cleared ==
           [i \in 1..Len(appended) |->
              IF appended[i].id # active THEN appended[i]
              ELSE [appended[i] EXCEPT !.entries = <<>>]]
         path == trim(slice(command, 3))
         invoke ==
           IF startsWith(command, <<"c", "d", " ">>)
           THEN IF path # <<>> THEN <<call("executeCommand", "change_directory", path)>>
                ELSE <<>>
           ELSE IF command \in {<<"p", "w", "d">>, <<"c", "l", "e", "a", "r">>} THEN <<>>
           ELSE IF startsWith(command, <<"d", "o", "c", "k", "e", "r", " ">>)
           THEN <<call("executeCommand", "execute_docker_command",
                       split(trim(slice(command, 7))))>>
           ELSE <<call("executeCommand", "execute_command", command)>>
         local ==
           IF command = <<"c", "l", "e", "a", "r">> THEN cleared
           ELSE IF command = <<"p", "w", "d">>
           THEN setEntryOutput(appended, active, entryId,
                  [stdout |-> <<activeSession.currentDirectory>>, stderr |-> <<>>,
                   success |-> TRUE])
           ELSE setEntryOutput(appended, active, entryId,
                  [stdout |-> <<>>, stderr |-> <<"cd:", "missing", "path", "argument">>,
                   success |-> FALSE])
     IN /\ terminal' =
             [terminal EXCEPT
                !.sessions = IF invoke = <<>> THEN local ELSE appended,
                !.isExecuting = invoke # <<>>,
                !.entryCount = entryId,
                !.currentCommand = <<>>,
                !.calls = @ \cup {terminalCall(invoke[i].origin, invoke[i].cmd,
                                               invoke[i].arg, active, entryId) :
                                    i \in 1..Len(invoke)}]
        /\ Outputs(invoke, NoPrompt, <<>>)
  /\ UNCHANGED <<listVars, actionVars, events>>

\* The session the tab bar shows as active, if any.
getActiveSession ==
  {x \in Range(terminal.sessions) : x.id = terminal.activeSessionId}

max(a, b) == IF a > b THEN a ELSE b

\* historyUpSkipping steps over one entry.
historyUpSkipping(historyIndex, length) ==
  IF historyIndex = -1 THEN length - 1 ELSE max(0, historyIndex - 2)
\* ArrowUp: the new history index (indices count from 0).
historyUp(historyIndex, length) ==
  IF historyIndex = -1 THEN length - 1 ELSE max(0, historyIndex - 1)

\* ArrowDown: the new history index, -1 past the newest entry.
historyDown(historyIndex, length) ==
  IF historyIndex + 1 >= length THEN -1 ELSE historyIndex + 1

\* setSessions(... historyIndex: newIndex ...) for the active session.
setHistoryIndex(prev, sessionId, newIndex) ==
  [i \in 1..Len(prev) |->
     IF prev[i].id = sessionId THEN [prev[i] EXCEPT !.historyIndex = newIndex]
     ELSE prev[i]]

\* ArrowUp in the input, which gets no key while it is disabled.
ArrowUp ==
  /\ activePage = "terminal"
  /\ ~terminal.isExecuting
  /\ \E activeSession \in getActiveSession :
       /\ Len(activeSession.commandHistory) > 0
       /\ LET newIndex == historyUp(activeSession.historyIndex,
                                    Len(activeSession.commandHistory))
          IN terminal' = [terminal EXCEPT
               !.sessions = setHistoryIndex(@, terminal.activeSessionId, newIndex),
               !.currentCommand = activeSession.commandHistory[newIndex + 1]]
  /\ Local
  /\ UNCHANGED <<listVars, actionVars, events>>

\* ArrowDown in the input.
ArrowDown ==
  /\ activePage = "terminal"
  /\ ~terminal.isExecuting
  /\ \E activeSession \in getActiveSession :
       /\ activeSession.historyIndex # -1
       /\ LET newIndex == historyDown(activeSession.historyIndex,
                                      Len(activeSession.commandHistory))
          IN terminal' = [terminal EXCEPT
               !.sessions = setHistoryIndex(@, terminal.activeSessionId, newIndex),
               !.currentCommand = IF newIndex = -1 THEN <<>>
                                  ELSE activeSession.commandHistory[newIndex + 1]]
  /\ Local
  /\ UNCHANGED <<listVars, actionVars, events>>

\* sessionAtResolution is the tab that is active when the call settles.
sessionAtResolution(x) == terminal.activeSessionId
\* The activeSessionId the closure of executeCommand captured when the command
\* was submitted.
capturedSessionId(x) == x.sessionId

\* A bridge call of executeCommand resolves or rejects: after change_directory
\* the working directory is fetched; otherwise the entry gets its output, or
\* the error as stderr, and isExecuting is reset.
ExecuteCommandSettled(x, out, newDir) ==
  /\ x \in terminal.calls
  /\ x.origin = "executeCommand"
  /\ LET next == IF x.cmd = "change_directory" /\ out.ok
                 THEN <<call("executeCommand", "get_current_directory", <<>>)>>
                 ELSE <<>>
         output == IF ~out.ok
                   THEN [stdout |-> <<>>, stderr |-> out.error, success |-> FALSE]
                   ELSE IF x.cmd = "get_current_directory"
                   THEN [stdout |-> <<>>, stderr |-> <<>>, success |-> TRUE]
                   ELSE [stdout |-> <<"o", "k">>, stderr |-> <<>>, success |-> TRUE]
         moved == [i \in 1..Len(terminal.sessions) |->
                     IF terminal.sessions[i].id = capturedSessionId(x)
                        /\ x.cmd = "get_current_directory" /\ out.ok
                     THEN [terminal.sessions[i] EXCEPT !.currentDirectory = newDir]
                     ELSE terminal.sessions[i]]
         calls == (terminal.calls \ {x}) \cup
                  {[x EXCEPT !.cmd = next[i].cmd, !.arg = next[i].arg] : i \in 1..Len(next)}
     IN /\ terminal' =
             IF ~x.mounted \/ next # <<>> THEN [terminal EXCEPT !.calls = calls]
             ELSE [terminal EXCEPT
                     !.calls = calls,
                     !.sessions = setEntryOutput(moved, capturedSessionId(x), x.entryId, output),
                     !.isExecuting = FALSE]
        /\ Outputs(next, NoPrompt, settled(x, out))
  /\ UNCHANGED <<listVars, actionVars, events>>

\* The Terminal page with its sessions.
TerminalNext ==
  \/ \E key \in {"containers", "terminal"} :
       Cardinality(terminal.calls) < MaxPending /\ handleNavigation(key)
  \/ \E x \in terminal.calls, out \in {o \in Outcomes : o.ok \/ o.error = <<"timeout">>} :
       GetHomeDirectorySettled(x, out)
  \/ AddNewSession
  \/ \E sessionId \in 1..MaxSessions : CloseSession(sessionId)
  \/ \E sessionId \in 1..MaxSessions : SetActiveSessionId(sessionId)
  \/ \E value \in TerminalCommands :
       terminal.entryCount < MaxEntries /\ SetCurrentCommand(value)
  \/ ExecuteCommand
  \/ \E x \in terminal.calls, out \in {o \in Outcomes : o.ok \/ o.error = <<"timeout">>},
        newDir \in {"/x"} :
       ExecuteCommandSettled(x, out, newDir)

SpecTerminal == Init /\ [][TerminalNext]_vars

\* The ids of a session list, in tab order.
sessionIds(sessionList) == [i \in 1..Len(sessionList) |-> sessionList[i].id]

\* The Enter key submitted a command: one more entry was created.
submitted == terminal'.entryCount = terminal.entryCount + 1

\* C13: a submitted 'cd' (alone or followed only by whitespace), 'pwd' or
\* 'clear' is handled locally: the step issues no bridge call; 'cd' shows the
\* missing-argument error, 'pwd' the cached directory of the session, and
\* 'clear' leaves the log of the session empty.
C13_BuiltInsStayLocal ==
  [][submitted =>
       LET command == terminal.currentCommand
           i == CHOOSE k \in 1..Len(terminal.sessions) :
                  terminal.sessions[k].id = terminal.activeSessionId
           entries == terminal'.sessions[i].entries
           last == entries[Len(entries)]
       IN /\ (trim(command) = <<"c", "d">> /\ command[1] = "c") =>
               /\ invoked' = <<>>
               /\ last.output.stderr = <<"cd:", "missing", "path", "argument">>
          /\ command = <<"p", "w", "d">> =>
               /\ invoked' = <<>>
               /\ last.output.stdout = <<terminal.sessions[i].currentDirectory>>
          /\ command = <<"c", "l", "e", "a", "r">> =>
               /\ invoked' = <<>>
               /\ entries = <<>>]_vars

\* ------------------------------------- many commands in one session
\* The commands typed: any of HistoryCommands among the first MaxEntries and
\* from the HistoryLimit-th on, the first of them in between.
HistoryCommands == <<<<"p", "w", "d">>, <<"l", "s">>>>

HistoryNext ==
  \/ \E key \in {"containers", "terminal"} :
       /\ terminal.sessions = <<>>
       /\ Cardinality(terminal.calls) < MaxPending
       /\ handleNavigation(key)
  \/ \E x \in terminal.calls, out \in {o \in Outcomes : o.ok} :
       GetHomeDirectorySettled(x, out)
  \/ \E k \in 1..Len(HistoryCommands) :
       /\ terminal.entryCount < HistoryLimit + MaxEntries
       /\ k = 1 \/ terminal.entryCount < MaxEntries \/ terminal.entryCount >= HistoryLimit - 1
       /\ SetCurrentCommand(HistoryCommands[k])
  \/ ExecuteCommand
  \/ \E x \in terminal.calls, out \in {o \in Outcomes : o.ok}, newDir \in {"/x"} :
       ExecuteCommandSettled(x, out, newDir)

SpecHistory == Init /\ [][HistoryNext]_vars

\* The commands submitted in a session, oldest first: its log, which only
\* 'clear' shortens.
submittedCommands(session) ==
  [j \in 1..Len(session.entries) |-> session.entries[j].command]

\* C12: after N commands have been submitted in a session, its command
\* history is exactly the last min(N, 100) of them, in submission order.
C12_HistoryHoldsLastCommands ==
  \A i \in 1..Len(terminal.sessions) :
    LET all == submittedCommands(terminal.sessions[i])
        N == Len(all)
    IN terminal.sessions[i].commandHistory =
         SubSeq(all, IF N > HistoryLimit THEN N - HistoryLimit + 1 ELSE 1, N)

\* More than HistoryLimit commands were submitted and the oldest one, which
\* differs from the oldest one kept, is gone from the history.
C12_Witness ==
  \E i \in 1..Len(terminal.sessions) :
    LET session == terminal.sessions[i]
    IN /\ Len(session.entries) = HistoryLimit + MaxEntries
       /\ Len(session.commandHistory) = HistoryLimit
       /\ session.commandHistory[1] # session.entries[1].command

\* A session is executing while one of its entries awaits its output.
executing(session) == \E j \in 1..Len(session.entries) : session.entries[j].isExecuting

\* C23: a session that is not executing accepts a command: while the tab
\* shown is idle its input is enabled, whatever the other sessions do.
C23_IdleSessionAcceptsCommand ==
  \A s \in getActiveSession : ~executing(s) => ~terminal.isExecuting

\* ------------------------------------------ commands in several sessions
IndependenceCommands == <<<<"c", "d", " ", "x">>>>

IndependenceNext ==
  \/ \E key \in {"containers", "terminal"} :
       /\ terminal.sessions = <<>>
       /\ Cardinality(terminal.calls) < MaxPending
       /\ handleNavigation(key)
  \/ \E x \in terminal.calls, out \in {o \in Outcomes : o.ok} :
       GetHomeDirectorySettled(x, out)
  \/ AddNewSession
  \/ \E sessionId \in 1..MaxSessions : CloseSession(sessionId)
  \/ \E sessionId \in 1..MaxSessions : SetActiveSessionId(sessionId)
  \/ \E k \in 1..Len(IndependenceCommands) :
       terminal.entryCount < MaxEntries /\ SetCurrentCommand(IndependenceCommands[k])
  \/ ExecuteCommand
  \/ \E x \in terminal.calls, out \in {o \in Outcomes : o.ok \/ o.error = <<"timeout">>},
        newDir \in {"/x"} :
       ExecuteCommandSettled(x, out, newDir)

SpecIndependence == Init /\ [][IndependenceNext]_vars

\* The four fields of a session that a command may change.
fourFields(session) ==
  <<session.entries, session.commandHistory, session.historyIndex,
    session.currentDirectory>>

\* The step submits a command in session id, or settles a bridge call of a
\* command that was submitted in it.
commandStepOf(id) ==
  \/ submitted /\ terminal.activeSessionId = id
  \/ \E x \in terminal.calls \ terminal'.calls :
       x.origin = "executeCommand" /\ x.sessionId = id

\* C24: a step of a command of session S, its submission or the settling of
\* its bridge calls, leaves the entry log, command history, history cursor and
\* working directory of every other session as they were, whichever tab is
\* active and whichever tabs were added or closed in between; in general a
\* session's four fields change only in a step of one of its own commands.
C24_CommandTouchesOnlyItsSession ==
  [][\A s \in Range(terminal.sessions), t \in Range(terminal'.sessions) :
       (s.id = t.id /\ fourFields(s) # fourFields(t)) => commandStepOf(s.id)]_vars

\* A 'cd' submitted in one session is awaiting the bridge while another
\* session is the active tab.
C24_Witness ==
  \E x \in terminal.calls :
    /\ x.mounted
    /\ x.cmd = "get_current_directory"
    /\ x.sessionId # terminal.activeSessionId
    /\ \E s \in Range(terminal.sessions) : s.id = x.sessionId
    /\ getActiveSession # {}

\* ------------------------------------------- the history keys of a session
KeysNext ==
  \/ \E key \in {"containers", "terminal"} :
       /\ terminal.sessions = <<>>
       /\ Cardinality(terminal.calls) < MaxPending
       /\ handleNavigation(key)
  \/ \E x \in terminal.calls, out \in {o \in Outcomes : o.ok} :
       GetHomeDirectorySettled(x, out)
  \/ \E k \in 1..Len(HistoryCommands) : SetCurrentCommand(HistoryCommands[k])
  \/ terminal.entryCount < MaxKeyEntries /\ ExecuteCommand
  \/ \E x \in terminal.calls, out \in {o \in Outcomes : o.ok}, newDir \in {"/x"} :
       ExecuteCommandSettled(x, out, newDir)
  \/ ArrowUp
  \/ ArrowDown

SpecKeys == Init /\ [][KeysNext]_vars

\* The history cursor of a session is 'no history selected' or an index of
\* its history.
cursorValid(session) ==
  session.historyIndex \in -1..(Len(session.commandHistory) - 1)

\* C21: the cursor of every session is always -1 or a valid index of its
\* history.  ArrowUp from 'no history selected' puts the most recent command
\* into the draft, from any other entry the one just before it, and at the
\* oldest entry keeps the oldest; ArrowDown puts the next newer command into
\* the draft and, from the newest, empties the draft and resets the cursor.
C21_HistoryKeysVisitEveryEntry ==
  [][/\ \A i \in 1..Len(terminal'.sessions) : cursorValid(terminal'.sessions[i])
     /\ \A s \in getActiveSession :
          LET h == s.commandHistory
              n == Len(h)
              at == s.historyIndex
              after == CHOOSE t \in Range(terminal'.sessions) : t.id = s.id
          IN /\ ArrowUp =>
                  /\ after.historyIndex =
                       IF at = -1 THEN n - 1 ELSE IF at = 0 THEN 0 ELSE at - 1
                  /\ terminal'.currentCommand = h[after.historyIndex + 1]
                  /\ after.commandHistory = h
             /\ ArrowDown =>
                  /\ after.historyIndex = IF at = n - 1 THEN -1 ELSE at + 1
                  /\ terminal'.currentCommand =
                       IF at = n - 1 THEN <<>> ELSE h[at + 2]
                  /\ after.commandHistory = h]_vars

\* After three different-looking submissions the cursor has walked up to the
\* oldest command, which is in the draft.
C21_Witness ==
  \E s \in getActiveSession :
    /\ Len(s.commandHistory) = MaxKeyEntries
    /\ s.historyIndex = 0
    /\ terminal.currentCommand = s.commandHistory[1]
    /\ s.commandHistory[1] # s.commandHistory[2]

\* C22: typing into the input while the cursor points at a history entry
\* resets the cursor to 'no history selected'.
C22_TypingResetsCursor ==
  [][\A s \in getActiveSession :
       (s.historyIndex # -1 /\ \E value \in TerminalCommands : SetCurrentCommand(value))
         => \E t \in Range(terminal'.sessions) : t.id = s.id /\ t.historyIndex = -1]_vars

\* ------------------------------------------------ the terminal's tabs alone
SessionsNext ==
  \/ \E key \in {"containers", "terminal"} :
       Cardinality(terminal.calls) < MaxPending /\ handleNavigation(key)
  \/ \E x \in terminal.calls, out \in {o \in Outcomes : o.ok \/ o.error = <<"timeout">>} :
       GetHomeDirectorySettled(x, out)
  \/ AddNewSession
  \/ \E sessionId \in 1..MaxSessions : CloseSession(sessionId)
  \/ \E sessionId \in 1..MaxSessions : SetActiveSessionId(sessionId)
  \/ \E sessionId \in 1..MaxSessions : FinishRenameTab(sessionId, <<"x">>)

SpecSessions == Init /\ [][SessionsNext]_vars

\* C14: closing the only session changes neither the session list nor the
\* active session; otherwise the closed session leaves the list, the others
\* keep their order, and the active session afterwards is the one before the
\* closed one (the first remaining one when the closed one was first) if the
\* closed session was active, and the same as before if it was not.
C14_CloseSessionKeepsAnActiveSession ==
  [][\A sessionId \in 1..MaxSessions :
       CloseSession(sessionId) =>
         LET ids == sessionIds(terminal.sessions)
             after == sessionIds(terminal'.sessions)
             at == CHOOSE i \in 1..Len(ids) : ids[i] = sessionId
         IN IF Len(ids) = 1
            THEN /\ terminal'.sessions = terminal.sessions
                 /\ terminal'.activeSessionId = terminal.activeSessionId
            ELSE /\ after = SubSeq(ids, 1, at - 1) \o SubSeq(ids, at + 1, Len(ids))
                 /\ terminal'.activeSessionId =
                      IF sessionId # terminal.activeSessionId
                      THEN terminal.activeSessionId
                      ELSE IF at > 1 THEN ids[at - 1] ELSE ids[2]]_vars

\* Three tabs are open and the last one, which is not next to the first, is
\* active: closing it must activate the middle one.
C14_Witness ==
  /\ activePage = "terminal"
  /\ Len(terminal.sessions) = 3
  /\ terminal.activeSessionId = terminal.sessions[3].id

\* C30: once the first session is installed, the session list stays
\* non-empty while the terminal is mounted and activeSessionId is the id of a
\* session of the list, whatever is added, closed, switched to or renamed.
C30_ActiveSessionExists ==
  [][/\ terminal'.sessions # <<>> =>
          \E i \in 1..Len(terminal'.sessions) :
            terminal'.sessions[i].id = terminal'.activeSessionId
     /\ (terminal.sessions # <<>> /\ activePage' = "terminal") =>
          terminal'.sessions # <<>>]_vars

\* All the tabs the bound allows were opened, one was renamed and one
\* closed: two remain and the first is active.
C30_Witness ==
  /\ activePage = "terminal"
  /\ Len(terminal.sessions) = 2
  /\ terminal.sessionCount = MaxSessions
  /\ terminal.activeSessionId = terminal.sessions[1].id
  /\ terminal.sessions[2].name = <<"x">>

\* ------------------------------------------------------ column resizing
min(a, b) == IF a < b THEN a ELSE b

\* newWidthUnclamped follows the pointer without limits.
newWidthUnclamped(startWidth, diff, column) == startWidth + diff
\* handleMouseMove: the width for a pointer displacement.
newWidth(startWidth, diff, column) ==
  max(min(startWidth + diff, column.maxWidth), column.minWidth)

\* mousedown on the resize handle of a rendered header cell.
HandleMouseDown(columnId, clientX) ==
  /\ activePage = "volumes"
  /\ Uncovered
  /\ renderBranch(volumeList) = "table"
  /\ ~volumeList.resize.listening
  /\ \E column \in Range(volumeList.columns) :
       /\ column.id = columnId
       /\ column.visible
       /\ volumeList' = [volumeList EXCEPT !.resize =
            [isResizing |-> TRUE, resizingColumn |-> columnId, startX |-> clientX,
             startWidth |-> column.width, listening |-> TRUE]]
  /\ Local
  /\ UNCHANGED <<activePage, containerList, networkList, imageList, listCalls, actionVars>>
  /\ UNCHANGED viewVars

\* mousemove on the document: handleMouseMove runs while it is registered.
HandleMouseMove(clientX) ==
  /\ activePage = "volumes"
  /\ LET r == volumeList.resize
         cols == volumeList.columns
     IN volumeList' =
          IF ~r.listening \/ r.resizingColumn = null THEN volumeList
          ELSE [volumeList EXCEPT !.columns =
                 [i \in 1..Len(cols) |->
                    IF cols[i].id = r.resizingColumn
                    THEN [cols[i] EXCEPT !.width =
                            newWidth(r.startWidth, clientX - r.startX, cols[i])]
                    ELSE cols[i]]]
  /\ Local
  /\ UNCHANGED <<activePage, containerList, networkList, imageList, listCalls, actionVars>>
  /\ UNCHANGED viewVars

\* mouseup on the document while handleMouseUp is registered.
HandleMouseUp ==
  /\ activePage = "volumes"
  /\ volumeList.resize.listening
  /\ volumeList' = [volumeList EXCEPT !.resize.isResizing = FALSE,
                                      !.resize.resizingColumn = null,
                                      !.resize.listening = FALSE]
  /\ Local
  /\ UNCHANGED <<activePage, containerList, networkList, imageList, listCalls, actionVars>>
  /\ UNCHANGED viewVars

\* The pointer positions of the mouse events.
PointerXs == {0, 100, 400}

\* The columns whose width is not the initial one.
resized(st) ==
  {i \in 1..Len(st.columns) : st.columns[i].width # initialColumns[i].width}

ResizeNext ==
  \/ handleNavigation("volumes")
  \/ \E list \in {l \in VolumeLists : Len(l) = 1} : ListVolumesResolved(list)
  \/ SetShowColumnSelector("volumes")
  \/ \E columnId \in {"size", "driver"} : ToggleColumnVisibility("volumes", columnId)
  \/ \E i \in 1..Len(volumeList.columns), clientX \in PointerXs :
       /\ Cardinality(resized(volumeList)) < MaxResized
       /\ HandleMouseDown(volumeList.columns[i].id, clientX)
  \/ \E clientX \in PointerXs : HandleMouseMove(clientX)
  \/ HandleMouseUp

SpecResize == Init /\ [][ResizeNext]_vars

\* C25: every column's width is within its limits; a pointer move during a
\* drag sets the dragged column's width to the drag-start width plus the
\* pointer displacement clamped to the column's limits and changes no other
\* width and no visibility; a pointer move outside a drag changes no column.
C25_ResizeStaysWithinLimits ==
  [][/\ \A i \in 1..Len(volumeList'.columns) :
          LET c == volumeList'.columns[i]
          IN c.minWidth <= c.width /\ c.width <= c.maxWidth
     /\ \A clientX \in PointerXs :
          HandleMouseMove(clientX) =>
            LET r == volumeList.resize
                before == volumeList.columns
                after == volumeList'.columns
            IN \A i \in 1..Len(before) :
                 /\ after[i].visible = before[i].visible
                 /\ after[i].width =
                      IF r.isResizing /\ before[i].id = r.resizingColumn
                      THEN LET w == r.startWidth + (clientX - r.startX)
                           IN IF w < before[i].minWidth THEN before[i].minWidth
                              ELSE IF w > before[i].maxWidth THEN before[i].maxWidth
                              ELSE w
                      ELSE before[i].width]_vars

\* A drag of one column has ended at a width strictly inside its limits,
\* another column sits at a limit, and the pointer is no longer followed.
C25_Witness ==
  /\ activePage = "volumes"
  /\ ~volumeList.resize.listening
  /\ \E i, j \in 1..Len(volumeList.columns) :
       LET c == volumeList.columns[i]
           d == volumeList.columns[j]
       IN /\ c.width # initialColumns[i].width
          /\ c.minWidth < c.width /\ c.width < c.maxWidth
          /\ d.width # initialColumns[j].width
          /\ d.width \in {d.minWidth, d.maxWidth}

\* ------------------------------------- selection in the container list
SelectionNext ==
  \/ \E list \in ContainerLists : ListContainersResolved(list)
  \/ \E term \in SearchTerms : SetContainerSearchTerm(term)
  \/ SetShowOnlyRunning
  \/ \E c \in ContainerPool : ToggleContainerSelection(c)
  \/ \E projectName \in ProjectNames : ToggleProjectSelection(projectName)

SpecSelection == Init /\ [][SelectionNext]_vars

\* The ids of the containers a project group shows under the current filter.
shownIds(projectName) ==
  UNION {{c.id : c \in Range(p.containers)} :
           p \in {q \in Range(filteredProjects(containerList)) : q.name = projectName}}

\* C20: a click on the checkbox of a project group adds to the selection, or
\* removes from it, only ids of the containers the group shows under the
\* current search and 'only running' filter.
C20_ProjectToggleStaysInFilteredView ==
  [][\A projectName \in ProjectNames :
       ToggleProjectSelection(projectName) =>
         LET before == containerList.selectedContainers
             after == containerList'.selectedContainers
         IN (after \ before) \cup (before \ after) \subseteq shownIds(projectName)]_vars

\* ------------------------------------------------- grouping by project
\* Containers of two projects whose names differ in case, and one without.
GroupingPool ==
  ContainerPool \cup
  {[id |-> <<"4">>, name |-> <<"b">>, image |-> <<"n">>,
    state |-> "running", project |-> <<"B">>],
   [id |-> <<"5">>, name |-> <<"a", "b">>, image |-> <<"n">>,
    state |-> "exited", project |-> <<"B">>]}

GroupingLists ==
  {s \in SeqsUpTo(GroupingPool, MaxGroupLen) :
     \A i, j \in 1..Len(s) : i # j => s[i].id # s[j].id}

GroupingNext ==
  \/ RefreshContainers
  \/ \E list \in GroupingLists : ListContainersResolved(list)
  \/ \E err \in ListErrors : ListContainersRejected(err)

SpecGrouping == Init /\ [][GroupingNext]_vars

\* The project values of a collection.
projectsOf(list) == {c.project : c \in Range(list)} \ {<<>>}

arrivalOrders(list) ==
  {t \in [1..Len(list) -> Range(list)] : Range(t) = Range(list)}

\* The containers of the groups, group after group.
RECURSIVE flatten(_)
flatten(groups) ==
  IF groups = <<>> THEN <<>> ELSE Head(groups).containers \o flatten(Tail(groups))

isRunning(c) == c.state = "running"

\* The cpu cell of a row of the table: "value" stands for the formatted sample.
cpuCell(st, c) ==
  IF c.id \in st.containerStats /\ isRunning(c) THEN "value" ELSE "N/A"

\* The cpu cell of a row of the earlier table.
earlierCpuCell(st, c) ==
  IF c.id \in st.containerStats THEN "value"
  ELSE IF isRunning(c) THEN "Loading..." ELSE "-"

\* loadContainerStats up to its first await, or to its end when no container
\* is running.
loadContainerStats(st) ==
  LET runningContainers == filter(st.containers, {c \in Range(st.containers) : isRunning(c)})
      ids == [i \in 1..Len(runningContainers) |-> runningContainers[i].id]
  IN IF ids = <<>> THEN [st EXCEPT !.containerStats = {}, !.statsFor = st.containers]
     ELSE [st EXCEPT !.statsFor = st.containers,
                     !.statsLoads = @ \cup {[runningContainers |-> ids, at |-> 1,
                                             statsMap |-> {},
                                             run |-> CHOOSE n \in 1..(Cardinality(@) + 1) :
                                                       \A x \in @ : x.run # n]}]

statsCalls(before, after) ==
  IF after.statsLoads = before.statsLoads THEN <<>>
  ELSE LET r == CHOOSE x \in after.statsLoads \ before.statsLoads : TRUE
       IN <<call("loadContainerStats", "get_container_stats", r.runningContainers[r.at])>>

\* The [containers] effect after a render with a new containers value.
ContainerStatsEffect ==
  /\ activePage = "containers"
  /\ containerList.statsFor # containerList.containers
  /\ containerList' =
       IF containerList.containers = <<>>
       THEN [containerList EXCEPT !.statsFor = <<>>]
       ELSE loadContainerStats(containerList)
  /\ Outputs(statsCalls(containerList, containerList'), NoPrompt, <<>>)
  /\ UNCHANGED <<activePage, listCalls, volumeList, networkList, imageList, actionVars>>
  /\ UNCHANGED viewVars

\* A tick of the 3 s interval the effect installed.
ContainerStatsInterval ==
  /\ activePage = "containers"
  /\ containerList.containers # <<>>
  /\ containerList.statsFor = containerList.containers
  /\ Cardinality(containerList.statsLoads) < MaxPending
  /\ containerList' = loadContainerStats(containerList)
  /\ Outputs(statsCalls(containerList, containerList'), NoPrompt, <<>>)
  /\ UNCHANGED <<activePage, listCalls, volumeList, networkList, imageList, actionVars>>
  /\ UNCHANGED viewVars

\* get_container_stats resolves or rejects inside a run of loadContainerStats:
\* the next running container is asked, or setContainerStats(statsMap).
GetContainerStatsSettled(r, out) ==
  /\ activePage = "containers"
  /\ r \in containerList.statsLoads
  /\ LET id == r.runningContainers[r.at]
         statsMap == IF out.ok THEN r.statsMap \cup {id} ELSE r.statsMap
         c == call("loadContainerStats", "get_container_stats", id)
         last == r.at = Len(r.runningContainers)
         next == [r EXCEPT !.at = @ + 1, !.statsMap = statsMap]
     IN /\ containerList' =
             IF last
             THEN [containerList EXCEPT !.statsLoads = @ \ {r},
                                        !.containerStats = statsMap]
             ELSE [containerList EXCEPT !.statsLoads = (@ \ {r}) \cup {next}]
        /\ Outputs(IF last THEN <<>>
                   ELSE <<call("loadContainerStats", "get_container_stats",
                               r.runningContainers[r.at + 1])>>,
                   NoPrompt, settled(c, out))
  /\ UNCHANGED <<activePage, listCalls, volumeList, networkList, imageList, actionVars>>
  /\ UNCHANGED viewVars

\* The state a container reports once it has stopped.
stopped(c) == [c EXCEPT !.state = "exited"]

\* The lists list_containers can return while containers stop.
StatsLists ==
  {[i \in 1..Len(l) |-> IF i \in S THEN stopped(l[i]) ELSE l[i]] :
     l \in ContainerLists, S \in SUBSET (1..MaxListLen)}

StatsNext ==
  \/ RefreshContainers
  \/ \E list \in StatsLists :
       /\ Cardinality(containerList.statsLoads) <= MaxPending
       /\ ListContainersResolved(list)
  \/ ContainerStatsEffect
  \/ ContainerStatsInterval
  \/ \E r \in containerList.statsLoads,
        out \in {o \in Outcomes : o.ok \/ o.error = <<"timeout">>} :
       GetContainerStatsSettled(r, out)

SpecStats == Init /\ [][StatsNext]_vars

\* The [containers] effect has run for the rendered containers value.
effectsRan == containerList.statsFor = containerList.containers

\* C17: a row of the containers table shows stat values only for a container
\* of the current collection whose state is running, in the table and in the
\* earlier table alike.
C17_StatsOnlyForRunningContainers ==
  (renderBranch(containerList) = "table" /\ effectsRan) =>
    \A c \in Range(containerList.containers) :
      (cpuCell(containerList, c) = "value" \/ earlierCpuCell(containerList, c) = "value")
        => isRunning(c)

\* The same for the table with the isRunning test alone.
C17_StatsOnlyForRunningInTable ==
  (renderBranch(containerList) = "table" /\ effectsRan) =>
    \A c \in Range(containerList.containers) :
      cpuCell(containerList, c) = "value" => isRunning(c)

\* ------------------------------------------------ the container detail view
DetailNext ==
  \/ \E key \in {"containers", "images"} : handleNavigation(key)
  \/ \E list \in ContainerLists : ListContainersResolved(list)
  \/ \E c \in ContainerPool :
       /\ Cardinality(events.effects) + Cardinality(events.handlers) < MaxListeners
       /\ ShowContainerDetail(c)
  \/ ContainerDetailOnBack
  \/ \E p \in pending, list \in ContainerLists, out \in Outcomes :
       ContainerDetailLoadSettled(p, list, out)
  \/ \E e \in events.effects : ListenResolved(e)

SpecDetail == Init /\ [][DetailNext]_vars

\* C15: every subscribed event handler belongs to a listener effect of the
\* mounted detail view that has not been cleaned up; after the view unmounts
\* no handler it registered remains subscribed.
C15_NoHandlerOutlivesItsView ==
  \A h \in events.handlers :
    /\ ~h.leaked
    /\ containerDetail # <<>>
    /\ h.containerId = containerDetail[1].containerId

\* C16: the response to a bridge call whose view has unmounted is discarded:
\* the step that delivers it changes no state, issues no bridge call and
\* shows nothing.
C16_StaleResponseDiscarded ==
  [][\A p \in pending :
       (/\ ~p.mounted
        /\ p \notin pending'
        /\ response' = settled(p, [ok |-> response'[1].ok, error |-> response'[1].error]))
         => /\ invoked' = <<>>
            /\ prompt' = NoPrompt
            /\ UNCHANGED <<listVars, rowDeleteModal, fanouts, containerDetail, viewVars>>]_vars

\* C6: in the containers, volumes and networks tables the name column is
\* rendered in the table head and in every row, whatever was toggled, shown
\* or hidden, and the column selector never offers it.
C6_IdentityColumnAlwaysShown ==
  \A page \in ColumnPages :
    (activePage = page /\ renderBranch(pageState(page)) = "table")
      => /\ "name" \in Range(tableColumns(page).header)
         /\ "name" \in Range(tableColumns(page).row)
         /\ "name" \notin Range(tableColumns(page).selector)

\* The column of the page's table with the given id.
columnOf(st, columnId) == CHOOSE c \in Range(st.columns) : c.id = columnId

\* What the page's table renders for a state of its list view.
tableOf(page, st) ==
  CASE page = "containers" -> containerTableColumns(st)
    [] page = "volumes" -> volumeTableColumns(st)
    [] page = "networks" -> networkTableColumns(st)

\* The column selector with one loaded list per page.
VisibilityNext ==
  \/ \E key \in ColumnPages : handleNavigation(key)
  \/ \E list \in {l \in ContainerLists : Len(l) = 1} : ListContainersResolved(list)
  \/ \E list \in {l \in VolumeLists : Len(l) = 1} : ListVolumesResolved(list)
  \/ \E list \in {l \in NetworkLists : Len(l) = 1} : ListNetworksResolved(list)
  \/ \E page \in ColumnPages : SetShowColumnSelector(page)
  \/ \E page \in ColumnPages :
       \E i \in 1..Len(pageState(page).columns) :
         ToggleColumnVisibility(page, pageState(page).columns[i].id)
  \/ \E page \in ColumnPages : ShowAllColumns(page)
  \/ \E page \in ColumnPages : HideAllColumns(page)

SpecVisibility == Init /\ [][VisibilityNext]_vars

\* C26: "Show all" makes every column the selector offers visible and "Hide
\* all" makes every one of them hidden, in one step; a toggle flips the
\* visibility of its column and leaves every other column as it was; after
\* each of the three a column the selector offers is rendered in the head and
\* in the rows exactly when it is visible; and none of the three issues a
\* bridge call or changes anything but the columns.
C26_ColumnVisibilityActions ==
  [][\A page \in {activePage} \cap ColumnPages :
       LET before == pageState(page)
           after == pageState(page)'
           offered == Range(tableOf(page, before).selector)
           shown == {columnId \in offered : columnOf(after, columnId).visible}
           onlyColumns ==
             /\ Range(tableOf(page, after).header) \cap offered = shown
             /\ Range(tableOf(page, after).row) \cap offered = shown
             /\ invoked' = <<>>
             /\ listCalls' = listCalls
             /\ after = [before EXCEPT !.columns = after.columns]
       IN before.showColumnSelector =>
            /\ ShowAllColumns(page) => (shown = offered /\ onlyColumns)
            /\ HideAllColumns(page) => (shown = {} /\ onlyColumns)
            /\ \A columnId \in offered :
                 ToggleColumnVisibility(page, columnId) =>
                   /\ \A i \in 1..Len(before.columns) :
                        after.columns[i] =
                          IF before.columns[i].id = columnId
                          THEN [before.columns[i] EXCEPT
                                  !.visible = ~before.columns[i].visible]
                          ELSE before.columns[i]
                   /\ onlyColumns]_vars

\* The volumes table is shown with loaded rows and every column, the
\* initially hidden driver and scope included, is visible and rendered.
C26_Witness ==
  /\ activePage = "volumes"
  /\ renderBranch(volumeList) = "table"
  /\ volumeList.volumes # <<>>
  /\ \A i \in 1..Len(volumeList.columns) : volumeList.columns[i].visible
  /\ {"driver", "scope"} \subseteq Range(volumeTableColumns(volumeList).header)
  /\ {"driver", "scope"} \subseteq Range(volumeTableColumns(volumeList).row)

\* C27: the step that handles a successful list response leaves the stored
\* collection equal to that response and the stored error null, whatever
\* other loads of the view are or were in flight.
C27_SuccessfulLoadClearsError ==
  [][/\ \A list \in ContainerLists :
          ListContainersResolved(list) =>
            /\ containerList'.containers = list
            /\ containerList'.error = null
     /\ \A list \in NetworkLists :
          ListNetworksResolved(list) =>
            /\ networkList'.networks = list
            /\ networkList'.error = null]_vars

\* C28: while a list fetch of the mounted list view is in flight its loading
\* flag is true, and the flag is false only when none is.
C28_LoadingWhileFetching ==
  /\ activePage = "containers" => (containerList.loading <=> listCalls > 0)
  /\ activePage = "volumes" => (volumeList.loading <=> listCalls > 0)
  /\ activePage = "networks" => (networkList.loading <=> listCalls > 0)

\* ---------------------------------------- the log stream of the detail view
LogStreamNext ==
  \/ \E list \in {l \in ContainerLists : Len(l) = 1} : ListContainersResolved(list)
  \/ \E c \in ContainerPool : ShowContainerDetail(c)
  \/ ContainerDetailOnBack
  \/ \E p \in pending, list \in {l \in ContainerLists : Len(l) <= 1}, out \in Outcomes :
       ContainerDetailLoadSettled(p, list, out)
  \/ CanInvoke /\ SetAutoScroll
  \/ CanInvoke /\ ToggleLogStream
  \/ \E p \in pending, out \in Outcomes : LogStreamSettled(p, out)

SpecLogStream == Init /\ [][LogStreamNext]_vars

\* C29: toggling auto-scroll while the log stream is active issues no
\* stop_log_stream call and leaves isStreaming true.
C29_AutoScrollKeepsStream ==
  [][(SetAutoScroll /\ containerDetail[1].isStreaming)
       => /\ \A i \in 1..Len(invoked') : invoked'[i].cmd # "stop_log_stream"
          /\ containerDetail'[1].isStreaming]_vars

\* ----------------------------------------------- properties of the actions
RemoveCommands == {"remove_container", "remove_image", "remove_volume", "remove_network"}

\* C3: no remove bridge call is issued unless the user confirmed the removal
\* of that same target in a confirmation prompt of the same handler run, and a
\* cancelled prompt issues no bridge call.
C3_RemoveOnlyAfterConfirm ==
  /\ \A i \in 1..Len(invoked) :
       invoked[i].cmd \in RemoveCommands
         => /\ prompt.kind \in {"confirm", "modal"}
            /\ prompt.answer
            /\ prompt.target = invoked[i].arg
  /\ (prompt.kind \in {"confirm", "modal"} /\ ~prompt.answer) => invoked = <<>>

ReservedNames == {bridge, host, none}
reservedIds == {n.id : n \in {m \in NetworkPool : m.name \in ReservedNames}}

\* C4: a removal attempt on a network named bridge, host or none never issues
\* (or leaves in flight, or stages in the delete modal) a remove_network call,
\* and from the row handler, the card handler and the modal-based delete click
\* it shows the local rejection message and changes nothing.
C4_ReservedNetworkRejected ==
  /\ [](/\ \A i \in 1..Len(invoked) :
             invoked[i].cmd = "remove_network" => invoked[i].arg \notin reservedIds
        /\ \A p \in pending : p.cmd = "remove_network" => p.arg \notin reservedIds
        /\ networkList.networkToDelete # <<>>
             => networkList.networkToDelete[1].name \notin ReservedNames)
  /\ [][\A n \in NetworkPool :
          (/\ n.name \in ReservedNames
           /\ \/ \E answer \in BOOLEAN : NetworkRowHandleRemove(n, answer)
              \/ \E answer \in BOOLEAN : NetworkCardHandleRemove(n, answer)
              \/ NetworkRowHandleDeleteClick(n))
            => /\ prompt' = alert(n.id, RejectionMessage)
               /\ invoked' = <<>>
               /\ UNCHANGED <<listVars, actionVars>>]_vars

\* A removal attempt on the bridge network has just been rejected.
C4_Witness ==
  /\ activePage = "networks"
  /\ prompt.kind = "alert"
  /\ prompt.message = RejectionMessage
  /\ prompt.target \in reservedIds
  /\ \E n \in networkRows(networkList) : n.id = prompt.target /\ n.name = bridge

\* The failure classes C7 names: resource in use, permission denied, backend
\* unreachable, already removed / not found.
recognizable(err) ==
  \/ includes(err, <<"in", "use">>)
  \/ includes(err, <<"permission", "denied">>)
  \/ includes(err, <<"connect">>) \/ includes(err, <<"socket">>)
  \/ includes(err, <<"not", "found">>)

\* C7: the message shown for a failed remove of the container row, the volume
\* row or the network modal contains the raw error text, and carries a hint
\* exactly when the error falls in a recognizable class.
C7_RemoveFailureMessage ==
  (/\ response # <<>>
   /\ ~response[1].ok
   /\ response[1].origin \in {"ContainerRow.handleRemove", "VolumeRow.handleRemove",
                              "NetworkList.handleDeleteConfirm"})
    => /\ prompt.kind = "alert"
       /\ includes(prompt.message, response[1].error)
       /\ includes(prompt.message, <<"Tip:">>) <=> recognizable(response[1].error)

\* C8: every failed action bridge call (start, stop, restart, remove) ends in
\* a blocking acknowledgment shown to the user.
C8_FailureAcknowledged ==
  (/\ response # <<>>
   /\ ~response[1].ok
   /\ response[1].cmd \in RemoveCommands
                          \cup {"start_container", "stop_container", "restart_container"})
    => prompt.kind = "alert"

\* The steps of a project-group action, told by what they do to fanouts.
fanoutStarted == Len(fanouts') = Len(fanouts) + 1
memberResponse ==
  /\ response' # <<>>
  /\ response'[1].origin = "handleProjectAction"
fanoutCompletedAt(k) ==
  /\ k \in 1..Len(fanouts)
  /\ fanouts[k].outstanding = {response'[1].arg}
  /\ fanouts' = SubSeq(fanouts, 1, k - 1) \o SubSeq(fanouts, k + 1, Len(fanouts))

\* C9: a project-group action issues, in one step, exactly one call per member
\* container of the group; a member's failure leaves the other members' calls
\* outstanding; and one collection refresh is issued, in the step in which the
\* last member call resolves or fails, and none before.
C9_ProjectFanOut ==
  /\ [][fanoutStarted =>
          LET f == fanouts'[Len(fanouts')]
              members == {c \in Range(containerList.containers) : c.project = f.projectName}
          IN /\ members # {}
             /\ Len(invoked') = Cardinality(members)
             /\ {invoked'[i].arg : i \in 1..Len(invoked')} = {c.id : c \in members}
             /\ \A i \in 1..Len(invoked') :
                  invoked'[i].cmd = containerCommand(f.action)
             /\ f.outstanding = {c.id : c \in members}
             /\ UNCHANGED listVars]_vars
  /\ [][memberResponse =>
          IF \E k \in 1..Len(fanouts) : fanoutCompletedAt(k)
          THEN /\ invoked' = <<listCall("containers")>>
               /\ listCalls' <= listCalls + 1
          ELSE /\ invoked' = <<>>
               /\ Len(fanouts') = Len(fanouts)
               /\ \E k \in 1..Len(fanouts) :
                    /\ response'[1].arg \in fanouts[k].outstanding
                    /\ fanouts'[k].outstanding = fanouts[k].outstanding \ {response'[1].arg}
                    /\ fanouts'[k].outstanding # {}
               /\ UNCHANGED listVars]_vars
  /\ [](\A k \in 1..Len(fanouts) : fanouts[k].outstanding # {})

\* A two-member group whose last outstanding call has just failed, and the one
\* refresh that follows.
C9_Witness ==
  /\ response # <<>>
  /\ response[1].origin = "handleProjectAction"
  /\ ~response[1].ok
  /\ invoked = <<listCall("containers")>>
  /\ containerList.loading
  /\ \E p \in Range(containerList.projects) :
       Len(p.containers) = 2 /\ response[1].arg \in {c.id : c \in Range(p.containers)}

====
